---- MODULE Spec2Model ----
(***************************************************************************)
(* Verification model of the flyfront reactive data-access layer:          *)
(*   CacheService      libs/data-access/src/lib/services/cache.service.ts  *)
(*   ApiService        libs/data-access/src/lib/services/cache.service.ts  *)
(*   WebSocketService  libs/data-access/src/lib/data-access/data-access.ts *)
(* Every service is single threaded: one action is one public call, one    *)
(* event handler or one timer callback, run to completion.                 *)
(***************************************************************************)
EXTENDS Integers, Sequences, FiniteSets, TLC

\* ------------------------------------------------------------------ bounds
MaxTime == 2          \* the clock Date.now() runs over 0..MaxTime
MaxStreams == 2       \* observables created by CacheService.wrap
MaxGets == 3          \* cap of the hit and miss counters
MaxSubs == 2          \* subscribers attached to one wrap stream
MaxReqs == 2          \* observables returned by ApiService.get
MaxRetriesCfg == 4    \* largest maxRetries a caller configures
MaxSockets == 3       \* sockets opened by connect() and by reconnects
MaxReconnectCfg == 2  \* largest reconnectAttempts a caller configures
MaxPolls == 2         \* poll() calls
MaxPollSubs == 2      \* subscriptions to poll streams
MaxEmits == 2         \* values one poll subscription emits
MaxRsSubs == 2        \* subscriptions made to one reactive stream
MaxRsGets == 3        \* GET requests one reactive stream issues
MaxRefreshes == 2     \* refresh() calls on one reactive stream
MaxPollValues == 3    \* responses one emitOnlyOnChange poll receives
MaxOptSubs == 4       \* subscriptions to the stream optimisticUpdate() returned
MaxBatch == 3         \* request factories handed to one batch() call
MaxReqEmits == 2      \* values one request stream of a batch emits
MaxList == 4          \* request factories of a batch whose streams emit one value each
MaxPages == 3         \* pages the server holds for a paginated endpoint
MaxWsReqs == 2        \* subscriptions of request() streams
MaxSse == 3           \* EventSources opened by sse() subscriptions
MaxSseEvents == 2     \* events one sse() subscription emits

Keys == {"k1", "k2"}
Values == {"v1", "v2"}
TTLs == {0, 1, 2}

VARIABLES
  now,            \* Date.now()
  \* ---- CacheService
  cache,          \* Map<string, CacheEntry>, NoEntry when the key is absent
  observables,    \* Map<string, Observable>, 0 when the key is absent
  stats,          \* _stats signal {hits, misses, size}
  streams,        \* the observables wrap() has built, by creation order
  factoryCalls,   \* per key, the number of factory() invocations made by wrap()
  cacheOrder,     \* the keys of the cache Map in insertion order, as it iterates
  returned,       \* what clearExpired() or invalidatePattern() returned, while it
                  \* is the latest call made to the service
  \* ---- ApiService: get() and the response cache
  apiCache,       \* Map<string, {data, expiry}>, NoApiEntry when the key is absent
  apiReqs,        \* the observables get() has returned, by creation order
  httpCalls,      \* number of http.get() subscriptions (transport invocations)
  \* ---- ApiService.withRetry: one subscription of the returned stream
  retryCfg,       \* {...DEFAULT_RETRY_CONFIG, ...config} and the request's error handling
  retryPhase,     \* "idle", "requesting", "waiting" (backoff timer), "done", "failed"
  retryCount,     \* the accumulator of scan()
  retryAttempts,  \* subscriptions to the request stream made so far
  retryDelays,    \* the delays of the timers started so far, in order
  retryLast,      \* the last error the request stream raised
  retryErr,       \* the error the returned stream failed with
  \* ---- ApiService.poll
  activePolls,    \* Map<string, Subject<void>>: per id the poll whose stop$ is registered, or 0
  polls,          \* the poll() calls made: their id, options and the state of their stop$
  pollSubs,       \* the subscriptions made to the streams poll() returned
  \* ---- ApiService.sse
  activeSSE,      \* Map<string, EventSource>: per id the registered connection, or 0
  sseConns,       \* the EventSources opened, one per subscription of an sse() stream
  \* ---- WebSocketService
  wsState,        \* _state signal
  wsConfig,       \* config, NoConfig for null
  wsAttempts,     \* reconnectAttempts
  wsError,        \* _error signal: "none", "transport", "max"
  heartbeatTimer, \* heartbeatTimer is set
  socketCur,      \* socket$: index of the current WebSocketSubject, 0 for null
  sockets,        \* every WebSocketSubject createConnection() has built and subscribed
  wsTimers,       \* reconnect timers pending
  wsReqs,         \* the subscriptions made to the streams request() returned
  \* ---- ApiService.createPaginatedStream
  pstream,        \* one paginated stream: its subjects and the request in flight
  \* ---- ApiService.createReactiveStream
  rstream,        \* one reactive stream: refresh$, its subscriptions and requests
  \* ---- ApiService.batch
  bat,            \* one subscribed batch: its request streams and what it emitted
  \* ---- ApiService.optimisticUpdate
  opt,            \* one optimisticUpdate() call: the caller's state and the requests
  \* ---- ApiService.poll: emitOnlyOnChange
  pchg            \* one subscribed poll: the responses it got and what it emitted

cacheVars == <<cache, observables, stats, streams, factoryCalls, cacheOrder, returned>>
apiVars == <<apiCache, apiReqs, httpCalls>>
retryVars == <<retryCfg, retryPhase, retryCount, retryAttempts, retryDelays, retryLast,
               retryErr>>

pollVars == <<activePolls, polls, pollSubs>>

wsVars == <<wsState, wsConfig, wsAttempts, wsError, heartbeatTimer, socketCur, sockets,
            wsTimers>>

reqVars == <<wsReqs>>

streamVars == <<pstream, rstream, bat, opt, pchg>>

sseVars == <<activeSSE, sseConns>>

vars == <<now, cacheVars, apiVars, retryVars, pollVars, sseVars, wsVars, reqVars, streamVars>>

NotCache == <<apiVars, retryVars, pollVars, sseVars, wsVars, reqVars, streamVars>>
NotApi == <<cacheVars, retryVars, pollVars, sseVars, wsVars, reqVars, streamVars>>
NotRetry == <<now, cacheVars, apiVars, pollVars, sseVars, wsVars, reqVars, streamVars>>
NotPoll == <<now, cacheVars, apiVars, retryVars, sseVars, wsVars, reqVars, streamVars>>
NotSse == <<now, cacheVars, apiVars, retryVars, pollVars, wsVars, reqVars, streamVars>>
NotWs == <<now, cacheVars, apiVars, retryVars, pollVars, sseVars, reqVars, streamVars>>

\* ------------------------------------------------------------ CacheService
NoEntry == [data |-> "null", expiry |-> -1, createdAt |-> -1]

\* The fields of the service the handlers read and write, as one value.
CS == [cache |-> cache, observables |-> observables, stats |-> stats, order |-> cacheOrder]

\* an entry judged by its age alone, whatever its ttl
isExpired_ByAge(entry, t) == t > entry.createdAt

isExpired(entry, t) == t > entry.expiry

mapSize(c) == Cardinality({k \in Keys : c[k] # NoEntry})

updateSize(cs) == [cs EXCEPT !.stats.size = mapSize(cs.cache)]

recordHit(cs) == [cs EXCEPT !.stats.hits = @ + 1]

recordMiss(cs) == [cs EXCEPT !.stats.misses = @ + 1]

\* a delete that leaves the size as it was
\* Map.delete(key): the key leaves the iteration order
MapDelete(order, key) == SelectSeq(order, LAMBDA k : k # key)
\* Map.set(key, ...): a new key goes last, a key already held keeps its place
MapSet(order, key) == IF \E i \in DOMAIN order : order[i] = key THEN order
                      ELSE Append(order, key)

CacheDelete_NoResize(cs, key) ==
  [cs EXCEPT !.cache[key] = NoEntry, !.observables[key] = 0,
             !.order = MapDelete(cs.order, key)]

\* delete(key): the entry and the pending observable both go; the size is
\* recomputed only when an entry was removed.
CacheDelete(cs, key) ==
  LET deleted == cs.cache[key] # NoEntry
      c1 == [cs EXCEPT !.cache[key] = NoEntry, !.observables[key] = 0,
                       !.order = MapDelete(cs.order, key)]
  IN  IF deleted THEN updateSize(c1) ELSE c1

\* get(key): <<service state after the call, returned value>>
CacheGet(cs, key, t) ==
  LET entry == cs.cache[key]
  IN  IF entry = NoEntry THEN <<recordMiss(cs), "null">>
      ELSE IF isExpired(entry, t) THEN <<recordMiss(CacheDelete(cs, key)), "null">>
      ELSE <<recordHit(cs), entry.data>>

CacheSet(cs, key, data, ttl, t) ==
  updateSize([cs EXCEPT !.cache[key] =
                 [data |-> data, expiry |-> t + ttl, createdAt |-> t],
                        !.order = MapSet(cs.order, key)])

CacheHas(cs, key, t) ==
  LET entry == cs.cache[key]
  IN  IF entry = NoEntry THEN <<cs, FALSE>>
      ELSE IF isExpired(entry, t) THEN <<CacheDelete(cs, key), FALSE>>
      ELSE <<cs, TRUE>>

CacheClear(cs) ==
  [cache |-> [k \in Keys |-> NoEntry],
   observables |-> [k \in Keys |-> 0],
   stats |-> [hits |-> 0, misses |-> 0, size |-> 0],
   order |-> <<>>]

\* this.delete(key) for every key of ks, as the for-of loops over the map do;
\* the deletions touch different keys, so their order does not show
RECURSIVE DeleteEach(_, _)
DeleteEach(cs, ks) ==
  IF ks = {} THEN cs
  ELSE LET k == CHOOSE x \in ks : TRUE
       IN  DeleteEach(CacheDelete(cs, k), ks \ {k})

CacheClearExpired_AtExpiry(cs, t) ==
  LET ks == {k \in Keys : cs.cache[k] # NoEntry /\ t >= cs.cache[k].expiry}
  IN  <<DeleteEach(cs, ks), Cardinality(ks)>>

\* clearExpired(): <<service state after the call, number cleared>>
CacheClearExpired(cs, t) ==
  LET ks == {k \in Keys : cs.cache[k] # NoEntry /\ isExpired(cs.cache[k], t)}
  IN  <<DeleteEach(cs, ks), Cardinality(ks)>>

\* the regular expressions handed to invalidatePattern, by their source; a
\* string pattern becomes new RegExp(pattern), a RegExp may carry the g flag
Patterns == {"^k", "1$", "^user-"}

\* the match of pattern in key searched from index from: the index its match
\* ends at, -1 when there is none
RegexExec(pattern, key, from) ==
  CASE pattern = "^k" -> IF key \in {"k1", "k2"} /\ from = 0 THEN 1 ELSE -1
    [] pattern = "1$" -> IF key = "k1" /\ from <= 1 THEN 2 ELSE -1
    [] OTHER -> -1

\* regex.test(key) for a pattern without flags
RegexTest(pattern, key) == RegexExec(pattern, key, 0) # -1

\* the loop of invalidatePattern over cache.keys(): regex.test(key) searches
\* a global regex from its lastIndex and leaves lastIndex at the end of the
\* match, or at 0 when there is none
RECURSIVE InvalidateKeys(_, _, _, _, _, _)
InvalidateKeys(cs, keys, pattern, global, lastIndex, invalidated) ==
  IF keys = <<>> THEN <<cs, invalidated>>
  ELSE LET key == Head(keys)
           end == RegexExec(pattern, key, IF global THEN lastIndex ELSE 0)
           next == IF end = -1 \/ ~global THEN 0 ELSE end
       IN  IF end # -1
             THEN InvalidateKeys(CacheDelete(cs, key), Tail(keys), pattern, global, next,
                                 invalidated + 1)
             ELSE InvalidateKeys(cs, Tail(keys), pattern, global, next, invalidated)

\* invalidatePattern(pattern): <<service state after the call, number invalidated>>
CacheInvalidatePattern(cs, pattern, global) ==
  InvalidateKeys(cs, cs.order, pattern, global, 0, 0)

\* getOrSet(key, factory, ttl) with a factory that returns data:
\* <<service state after the call, returned value>>
CacheGetOrSet(cs, key, data, ttl, t) ==
  LET g == CacheGet(cs, key, t)
  IN  IF g[2] # "null" THEN g ELSE <<CacheSet(g[1], key, data, ttl, t), data>>

NoReturn == [op |-> "none", ret |-> 0, at |-> 0, pattern |-> "", global |-> FALSE,
             before |-> [k \in Keys |-> NoEntry], after |-> [k \in Keys |-> NoEntry]]

CommitState(cs) ==
  /\ cache' = cs.cache
  /\ observables' = cs.observables
  /\ stats' = cs.stats
  /\ cacheOrder' = cs.order

Commit(cs) ==
  /\ CommitState(cs)
  /\ returned' = NoReturn

CanCount == stats.hits + stats.misses < MaxGets

\* ---- public calls
Get(key) ==
  /\ CanCount
  /\ Commit(CacheGet(CS, key, now)[1])
  /\ UNCHANGED <<now, streams, factoryCalls>>
  /\ UNCHANGED NotCache

Set(key, data, ttl) ==
  /\ Commit(CacheSet(CS, key, data, ttl, now))
  /\ UNCHANGED <<now, streams, factoryCalls>>
  /\ UNCHANGED NotCache

Has(key) ==
  /\ cache[key] # NoEntry
  /\ Commit(CacheHas(CS, key, now)[1])
  /\ UNCHANGED <<now, streams, factoryCalls>>
  /\ UNCHANGED NotCache

Delete(key) ==
  /\ cache[key] # NoEntry \/ observables[key] # 0
  /\ Commit(CacheDelete(CS, key))
  /\ UNCHANGED <<now, streams, factoryCalls>>
  /\ UNCHANGED NotCache

Clear ==
  /\ CS # CacheClear(CS)
  /\ Commit(CacheClear(CS))
  /\ UNCHANGED <<now, streams, factoryCalls>>
  /\ UNCHANGED NotCache

ClearExpired ==
  LET r == CacheClearExpired(CS, now)
  IN  /\ CommitState(r[1])
      /\ returned' = [NoReturn EXCEPT !.op = "clearExpired", !.ret = r[2], !.at = now,
                                      !.before = cache, !.after = r[1].cache]
  /\ UNCHANGED <<now, streams, factoryCalls>>
  /\ UNCHANGED NotCache

InvalidatePattern(pattern, global) ==
  LET r == CacheInvalidatePattern(CS, pattern, global)
  IN  /\ CommitState(r[1])
      /\ returned' = [NoReturn EXCEPT !.op = "invalidatePattern", !.ret = r[2], !.at = now,
                                      !.pattern = pattern, !.global = global,
                                      !.before = cache, !.after = r[1].cache]
  /\ UNCHANGED <<now, streams, factoryCalls>>
  /\ UNCHANGED NotCache

GetOrSet(key, data, ttl) ==
  /\ CanCount
  /\ Commit(CacheGetOrSet(CS, key, data, ttl, now)[1])
  /\ UNCHANGED <<now, streams, factoryCalls>>
  /\ UNCHANGED NotCache

\* wrap(key, factory, ttl): cached value, else the pending observable, else a
\* new observable factory().pipe(tap(set; observables.delete), shareReplay(1)).
Wrap(key, ttl) ==
  LET g == CacheGet(CS, key, now)
      cs1 == g[1]
      id == Len(streams) + 1
  IN  /\ CanCount
      /\ IF g[2] # "null"
           THEN /\ Commit(cs1)
                /\ UNCHANGED <<streams, factoryCalls>>
         ELSE IF cs1.observables[key] # 0
           THEN /\ Commit(cs1)
                /\ UNCHANGED <<streams, factoryCalls>>
         ELSE   /\ Len(streams) < MaxStreams
                /\ Commit([cs1 EXCEPT !.observables[key] = id])
                /\ streams' = Append(streams,
                      [key |-> key, ttl |-> ttl, st |-> "cold", val |-> "null",
                       subs |-> 0])
                /\ factoryCalls' = [factoryCalls EXCEPT ![key] = @ + 1]
      /\ UNCHANGED now
      /\ UNCHANGED NotCache

\* subscribe to a stream wrap() returned. shareReplay(1) connects to the
\* source on the first subscriber (and again after an error reset it); a
\* subscriber of a completed stream gets the replayed value at once.
WrapSubscribe(s) ==
  /\ s \in 1..Len(streams)
  /\ streams[s].st # "done"
  /\ streams[s].subs < MaxSubs
  /\ streams' = [streams EXCEPT ![s] = [@ EXCEPT !.st = "inflight", !.subs = @ + 1]]
  /\ UNCHANGED <<now, cache, observables, stats, factoryCalls, cacheOrder, returned>>
  /\ UNCHANGED NotCache

\* the shared subscription has no refCount: leaving subscribers do not stop
\* the source.
WrapUnsubscribe(s) ==
  /\ s \in 1..Len(streams)
  /\ streams[s].st = "inflight"
  /\ streams[s].subs > 0
  /\ streams' = [streams EXCEPT ![s].subs = @ - 1]
  /\ UNCHANGED <<now, cache, observables, stats, factoryCalls, cacheOrder, returned>>
  /\ UNCHANGED NotCache

SourceSucceed_OnlyWhenPending(s, v) ==
  /\ s \in 1..Len(streams)
  /\ streams[s].st = "inflight"
  /\ IF observables[streams[s].key] = s
       THEN Commit([CacheSet(CS, streams[s].key, v, streams[s].ttl, now)
                      EXCEPT !.observables[streams[s].key] = 0])
       ELSE UNCHANGED <<cache, observables, stats, cacheOrder, returned>>
  /\ streams' = [streams EXCEPT ![s] = [@ EXCEPT !.st = "done", !.val = v, !.subs = 0]]
  /\ UNCHANGED <<now, factoryCalls>>
  /\ UNCHANGED NotCache

\* the source emits its value and completes: tap() stores the value and
\* drops the pending entry registered under the key.
SourceSucceed(s, v) ==
  /\ s \in 1..Len(streams)
  /\ streams[s].st = "inflight"
  /\ Commit([CacheSet(CS, streams[s].key, v, streams[s].ttl, now)
               EXCEPT !.observables[streams[s].key] = 0])
  /\ streams' = [streams EXCEPT ![s] = [@ EXCEPT !.st = "done", !.val = v, !.subs = 0]]
  /\ UNCHANGED <<now, factoryCalls>>
  /\ UNCHANGED NotCache

\* the source fails: tap() passes the error on, shareReplay(1) hands it to
\* the subscribers and resets, so a later subscriber connects again.
SourceFail(s) ==
  /\ s \in 1..Len(streams)
  /\ streams[s].st = "inflight"
  /\ streams' = [streams EXCEPT ![s] = [@ EXCEPT !.st = "failed", !.subs = 0]]
  /\ UNCHANGED <<now, cache, observables, stats, factoryCalls, cacheOrder, returned>>
  /\ UNCHANGED NotCache

\* -------------------------------------------- ApiService: get() and its cache
Endpoints == {"/users"}
ParamSets == {"page=1", "page=2"}
ExplicitKeys == {"ck"}
NoTtl == -1
ApiTTLs == {1, NoTtl}
NoKey == ""

\* config.cache.ttl ?? 60000
DefaultCacheTtl == 60000
CacheTtlOf(ttl) == IF ttl = NoTtl THEN DefaultCacheTtl ELSE ttl

baseUrl == "/api"

\* buildUrl(endpoint): the query parameters are no part of it
buildUrl(endpoint) == baseUrl \o endpoint

ApiCacheKeys == {buildUrl(e) : e \in Endpoints} \cup ExplicitKeys

NoApiEntry == [data |-> <<>>, expiry |-> -1]

\* what the server answers to GET url?params
Resp(endpoint, params) == <<endpoint, params>>

\* config.cache.key ?? url
CacheKeyOf(r) == IF r.ckey # NoKey THEN r.ckey ELSE buildUrl(r.ep)

\* getFromCache(key) finds an entry it may serve
ApiCacheFresh(c, key, t) == c[key] # NoApiEntry /\ c[key].expiry > t

setCache(c, key, data, ttl, t) ==
  [c EXCEPT ![key] = [data |-> data, expiry |-> t + ttl]]

\* get(endpoint, config): with caching enabled a fresh entry is returned as a
\* one-element stream; otherwise getFromCache drops the entry and a new
\* request stream http.get(url).pipe(catchError, shareReplay(1), map(setCache))
\* is built. No HTTP request is made before the stream is subscribed.
ApiGet(endpoint, params, cacheOn, ckey, ttl) ==
  LET r == [ep |-> endpoint, params |-> params, cacheOn |-> cacheOn, ckey |-> ckey,
            ttl |-> CacheTtlOf(ttl), st |-> "cold", data |-> <<>>, at |-> -1]
      key == CacheKeyOf(r)
  IN  /\ Len(apiReqs) < MaxReqs
      /\ cacheOn \/ ckey = NoKey
      /\ IF cacheOn /\ ApiCacheFresh(apiCache, key, now)
           THEN /\ apiReqs' = Append(apiReqs,
                      [r EXCEPT !.st = "hit", !.data = apiCache[key].data])
                /\ UNCHANGED apiCache
         ELSE IF cacheOn
           THEN /\ apiReqs' = Append(apiReqs, r)
                /\ apiCache' = [apiCache EXCEPT ![key] = NoApiEntry]
         ELSE   /\ apiReqs' = Append(apiReqs, r)
                /\ UNCHANGED apiCache
      /\ UNCHANGED <<now, httpCalls>>
      /\ UNCHANGED NotApi

\* the caller subscribes to the stream get() returned: the cached value is
\* delivered at once, a request stream invokes the HTTP transport.
ApiSubscribe(i) ==
  /\ i \in 1..Len(apiReqs)
  /\ apiReqs[i].st \in {"cold", "hit"}
  /\ IF apiReqs[i].st = "hit"
       THEN /\ apiReqs' = [apiReqs EXCEPT ![i].st = "done"]
            /\ UNCHANGED httpCalls
       ELSE /\ apiReqs' = [apiReqs EXCEPT ![i].st = "inflight"]
            /\ httpCalls' = httpCalls + 1
  /\ UNCHANGED <<now, apiCache>>
  /\ UNCHANGED NotApi

\* the response arrives: map() writes it to the cache when caching is on
HttpRespond(i) ==
  /\ i \in 1..Len(apiReqs)
  /\ apiReqs[i].st = "inflight"
  /\ LET r == apiReqs[i]
         data == Resp(r.ep, r.params)
     IN  /\ apiReqs' = [apiReqs EXCEPT ![i] =
                           [@ EXCEPT !.st = "done", !.data = data, !.at = now]]
         /\ apiCache' = IF r.cacheOn
                          THEN setCache(apiCache, CacheKeyOf(r), data, r.ttl, now)
                          ELSE apiCache
  /\ UNCHANGED <<now, httpCalls>>
  /\ UNCHANGED NotApi

\* a caller subscribes again to a cache-enabled stream whose response has
\* arrived: shareReplay(1) replays the response without a request, and map(),
\* downstream of it, runs setCache again with the time of this subscription
ApiResubscribe(i) ==
  /\ i \in 1..Len(apiReqs)
  /\ apiReqs[i].st = "done"
  /\ apiReqs[i].at >= 0
  /\ apiReqs[i].cacheOn
  /\ LET r == apiReqs[i]
     IN  apiCache' = setCache(apiCache, CacheKeyOf(r), r.data, r.ttl, now)
  /\ UNCHANGED <<now, apiReqs, httpCalls>>
  /\ UNCHANGED NotApi

\* the request fails: catchError(handleError) rethrows, nothing is cached
HttpFail(i) ==
  /\ i \in 1..Len(apiReqs)
  /\ apiReqs[i].st = "inflight"
  /\ apiReqs' = [apiReqs EXCEPT ![i].st = "failed"]
  /\ UNCHANGED <<now, apiCache, httpCalls>>
  /\ UNCHANGED NotApi

\* clearCache(key?)
ApiClearCache(key) ==
  /\ apiCache[key] # NoApiEntry
  /\ apiCache' = [apiCache EXCEPT ![key] = NoApiEntry]
  /\ UNCHANGED <<now, apiReqs, httpCalls>>
  /\ UNCHANGED NotApi

ApiClearCacheAll ==
  /\ \E k \in ApiCacheKeys : apiCache[k] # NoApiEntry
  /\ apiCache' = [k \in ApiCacheKeys |-> NoApiEntry]
  /\ UNCHANGED <<now, apiReqs, httpCalls>>
  /\ UNCHANGED NotApi

InitApi ==
  /\ apiCache = [k \in ApiCacheKeys |-> NoApiEntry]
  /\ apiReqs = <<>>
  /\ httpCalls = 0

\* ------------------------------------------------------- ApiService.withRetry
MaxBackoffMs == 30000
DefaultMaxRetries == 3
DefaultRetryDelay == 1000
retryStatuses == {408, 429, 500, 502, 503, 504}
Statuses == {400, 503}
RetryDelays == {DefaultRetryDelay, 8000}

NoError == [kind |-> "none", status |-> -1, code |-> -1]

\* an HttpErrorResponse of the transport
HttpErrorResponse(status) == [kind |-> "HttpErrorResponse", status |-> status, code |-> -1]

\* handleError(error, config): the raw error with skipErrorHandler, else an
\* ApiErrorResponse object literal whose code is the status
handleError(error, skipErrorHandler) ==
  IF skipErrorHandler THEN error
  ELSE [kind |-> "ApiErrorResponse", status |-> -1, code |-> error.status]

Min(a, b) == IF a < b THEN a ELSE b

\* an off-by-one guard: one more retry than configured
RetryExhausted_OffByOne(count, maxRetries) == count > maxRetries

\* scan(): retryCount >= retryConfig.maxRetries throws
RetryExhausted(count, maxRetries) == count >= maxRetries

\* scan(): only an instance of HttpErrorResponse has its status checked
RetryRejects(error) ==
  error.kind = "HttpErrorResponse" /\ error.status \notin retryStatuses

\* switchMap(): the delay for the count scan() emitted
RetryDelayMs(cfg, count) ==
  IF cfg.exponentialBackoff
    THEN Min(cfg.retryDelay * 2 ^ count, MaxBackoffMs)
    ELSE cfg.retryDelay

\* withRetry(requestFn, config) is subscribed: requestFn() runs, the request
\* stream is subscribed for the first time
WithRetry(maxRetries, retryDelay, backoff, skipErrorHandler) ==
  /\ retryPhase = "idle"
  /\ retryCfg' = [maxRetries |-> maxRetries, retryDelay |-> retryDelay,
                  exponentialBackoff |-> backoff, skipErrorHandler |-> skipErrorHandler]
  /\ retryPhase' = "requesting"
  /\ retryAttempts' = 1
  /\ UNCHANGED <<retryCount, retryDelays, retryLast, retryErr>>
  /\ UNCHANGED NotRetry

\* the request fails with an HTTP status: the error passes the request's
\* catchError(handleError), then retryWhen's scan() and switchMap()
RequestFail(status) ==
  LET error == handleError(HttpErrorResponse(status), retryCfg.skipErrorHandler)
  IN  /\ retryPhase = "requesting"
      /\ retryLast' = error
      /\ IF RetryExhausted(retryCount, retryCfg.maxRetries) \/ RetryRejects(error)
           THEN /\ retryPhase' = "failed"
                /\ retryErr' = error
                /\ UNCHANGED <<retryCount, retryDelays>>
           ELSE /\ retryPhase' = "waiting"
                /\ retryCount' = retryCount + 1
                /\ retryDelays' = Append(retryDelays, RetryDelayMs(retryCfg, retryCount + 1))
                /\ UNCHANGED retryErr
      /\ UNCHANGED <<retryCfg, retryAttempts>>
      /\ UNCHANGED NotRetry

\* the request succeeds: the value is emitted and the stream completes
RequestSucceed ==
  /\ retryPhase = "requesting"
  /\ retryPhase' = "done"
  /\ UNCHANGED <<retryCfg, retryCount, retryAttempts, retryDelays, retryLast, retryErr>>
  /\ UNCHANGED NotRetry

\* timer(delayMs) fires: retryWhen subscribes to the request stream again
RetryTimerFires ==
  /\ retryPhase = "waiting"
  /\ retryPhase' = "requesting"
  /\ retryAttempts' = retryAttempts + 1
  /\ UNCHANGED <<retryCfg, retryCount, retryDelays, retryLast, retryErr>>
  /\ UNCHANGED NotRetry

InitRetry ==
  /\ retryCfg = [maxRetries |-> DefaultMaxRetries, retryDelay |-> DefaultRetryDelay,
                 exponentialBackoff |-> TRUE, skipErrorHandler |-> FALSE]
  /\ retryPhase = "idle"
  /\ retryCount = 0
  /\ retryAttempts = 0
  /\ retryDelays = <<>>
  /\ retryLast = NoError
  /\ retryErr = NoError

\* ------------------------------------------------------------ ApiService.poll
PollIds == {"a", "b"}

PollOf(s) == polls[pollSubs[s].poll]

\* a subscription whose timer runs or whose request is awaited
SubActive(sub) == sub.st \in {"ticking", "draining"}

\* finalize(() => this.activePolls.delete(pollId)): whatever is registered
\* under the id goes
Finalize(ap, id) == [ap EXCEPT ![id] = 0]

\* stop$.next() reaches takeUntil(stop$) of every subscription of poll p whose
\* timer runs: the timer is released; switchMap, downstream of takeUntil,
\* completes at once without a request in flight and else when that request ends.
StopSub(sub, p) ==
  IF sub.poll = p /\ sub.st = "ticking"
    THEN [sub EXCEPT !.st = IF sub.inflight THEN "draining" ELSE "closed",
                     !.stopped = TRUE]
    ELSE sub

\* stopPoll(pollId) on the three variables, as <<activePolls, polls, pollSubs>>
StopPollOn(ap, ps, subs, id) ==
  LET p == ap[id]
  IN  IF p = 0 THEN <<ap, ps, subs>>
      ELSE <<[ap EXCEPT ![id] = 0],
             [ps EXCEPT ![p].stopSt = "completed"],
             [s \in 1..Len(subs) |-> StopSub(subs[s], p)]>>

\* poll(endpoint, config): stops the poll registered under the id, registers
\* a new stop$ and returns defer(...), which starts nothing before it is
\* subscribed
Poll(id, continueOnError) ==
  LET r == StopPollOn(activePolls, polls, pollSubs, id)
      p == Len(polls) + 1
  IN  /\ Len(polls) < MaxPolls
      /\ activePolls' = [r[1] EXCEPT ![id] = p]
      /\ polls' = Append(r[2], [id |-> id, continueOnError |-> continueOnError,
                                stopSt |-> "open"])
      /\ pollSubs' = r[3]
      /\ UNCHANGED NotPoll

StopPoll(id) ==
  LET r == StopPollOn(activePolls, polls, pollSubs, id)
  IN  /\ activePolls[id] # 0
      /\ activePolls' = r[1]
      /\ polls' = r[2]
      /\ pollSubs' = r[3]
      /\ UNCHANGED NotPoll

\* subscribing runs defer(): timer(...).pipe(takeUntil(stop$), switchMap(get),
\* finalize). A stop$ that has completed never emits, so takeUntil never fires.
PollSubscribe(p) ==
  /\ p \in 1..Len(polls)
  /\ Len(pollSubs) < MaxPollSubs
  /\ pollSubs' = Append(pollSubs, [poll |-> p, st |-> "ticking", inflight |-> FALSE,
                                   emitted |-> 0, stopped |-> FALSE])
  /\ UNCHANGED <<activePolls, polls>>
  /\ UNCHANGED NotPoll

\* the timer ticks: switchMap drops the request in flight and issues get()
PollTick(s) ==
  /\ s \in 1..Len(pollSubs)
  /\ pollSubs[s].st = "ticking"
  /\ ~pollSubs[s].inflight
  /\ pollSubs[s].emitted < MaxEmits
  /\ pollSubs' = [pollSubs EXCEPT ![s].inflight = TRUE]
  /\ UNCHANGED <<activePolls, polls>>
  /\ UNCHANGED NotPoll

\* the request in flight ends without error: companion of the two handlers below
InnerDone(s, emits) ==
  LET sub == pollSubs[s]
      ends == sub.st = "draining"
  IN  /\ pollSubs' = [pollSubs EXCEPT ![s] =
            [@ EXCEPT !.inflight = FALSE,
                      !.emitted = IF emits THEN @ + 1 ELSE @,
                      !.st = IF ends THEN "closed" ELSE @]]
      /\ activePolls' = IF ends THEN Finalize(activePolls, PollOf(s).id) ELSE activePolls

\* the response arrives and is emitted; a stream whose timer has been
\* released completes now, and finalize runs
PollRespond(s) ==
  /\ s \in 1..Len(pollSubs)
  /\ pollSubs[s].inflight
  /\ InnerDone(s, TRUE)
  /\ UNCHANGED polls
  /\ UNCHANGED NotPoll

\* the request fails: skipped with continueOnError, else the stream fails,
\* its timer stops and finalize runs
PollRequestFail(s) ==
  /\ s \in 1..Len(pollSubs)
  /\ pollSubs[s].inflight
  /\ IF PollOf(s).continueOnError
       THEN InnerDone(s, FALSE)
       ELSE /\ pollSubs' = [pollSubs EXCEPT ![s] =
                              [@ EXCEPT !.inflight = FALSE, !.st = "closed"]]
            /\ activePolls' = Finalize(activePolls, PollOf(s).id)
  /\ UNCHANGED polls
  /\ UNCHANGED NotPoll

\* the subscriber unsubscribes: timer and request are dropped, finalize runs
PollUnsubscribe(s) ==
  /\ s \in 1..Len(pollSubs)
  /\ SubActive(pollSubs[s])
  /\ pollSubs' = [pollSubs EXCEPT ![s] = [@ EXCEPT !.inflight = FALSE, !.st = "closed"]]
  /\ activePolls' = Finalize(activePolls, PollOf(s).id)
  /\ UNCHANGED polls
  /\ UNCHANGED NotPoll

InitPoll ==
  /\ activePolls = [id \in PollIds |-> 0]
  /\ polls = <<>>
  /\ pollSubs = <<>>

\* ------------------------------------------------------------- ApiService.sse
SseIds == {"x", "y"}

\* closeSSE(sseId) as <<activeSSE, sseConns>>: the registered EventSource is
\* closed and unregistered; its subscriber is told nothing
CloseSseOn(reg, conns, id) ==
  LET c == reg[id]
  IN  IF c = 0 THEN <<reg, conns>>
      ELSE <<[reg EXCEPT ![id] = 0],
             [conns EXCEPT ![c] = [@ EXCEPT !.ready = "closed", !.closedBySse = TRUE]]>>

\* the cleanup function of the subscription: eventSource.close() and
\* activeSSE.delete(sseId), whatever is registered under the id
SseTeardown(reg, conns, c, subSt) ==
  <<[reg EXCEPT ![conns[c].id] = 0],
    [conns EXCEPT ![c] = [@ EXCEPT !.ready = "closed", !.sub = subSt]]>>

\* the stream sse(endpoint, {id}) returned is subscribed: closeSSE(id), then a
\* new EventSource is opened and registered
SseSubscribe(id, continueOnError) ==
  LET r == CloseSseOn(activeSSE, sseConns, id)
  IN  /\ Len(sseConns) < MaxSse
      /\ activeSSE' = [r[1] EXCEPT ![id] = Len(sseConns) + 1]
      /\ sseConns' = Append(r[2], [id |-> id, continueOnError |-> continueOnError,
                                   ready |-> "connecting", sub |-> "active",
                                   events |-> 0, closedBySse |-> FALSE])
      /\ UNCHANGED NotSse

CloseSSE(id) ==
  LET r == CloseSseOn(activeSSE, sseConns, id)
  IN  /\ activeSSE[id] # 0
      /\ activeSSE' = r[1]
      /\ sseConns' = r[2]
      /\ UNCHANGED NotSse

\* onopen: the 'open' marker is emitted
SseOpen(c) ==
  /\ c \in 1..Len(sseConns)
  /\ sseConns[c].ready = "connecting"
  /\ sseConns[c].events < MaxSseEvents
  /\ sseConns' = [sseConns EXCEPT ![c] =
        [@ EXCEPT !.ready = "open",
                  !.events = IF sseConns[c].sub = "active" THEN @ + 1 ELSE @]]
  /\ UNCHANGED activeSSE
  /\ UNCHANGED NotSse

\* onmessage and the named event listeners
SseMessage(c) ==
  /\ c \in 1..Len(sseConns)
  /\ sseConns[c].ready = "open"
  /\ sseConns[c].sub = "active"
  /\ sseConns[c].events < MaxSseEvents
  /\ sseConns' = [sseConns EXCEPT ![c].events = @ + 1]
  /\ UNCHANGED activeSSE
  /\ UNCHANGED NotSse

\* onerror: the browser has given up (readyState CLOSED) or reconnects
SseError(c, fatal) ==
  /\ c \in 1..Len(sseConns)
  /\ sseConns[c].ready \in {"connecting", "open"}
  /\ LET conns == [sseConns EXCEPT ![c].ready = IF fatal THEN "closed" ELSE "connecting"]
         r == IF conns[c].sub # "active" THEN <<activeSSE, conns>>
              ELSE IF fatal THEN SseTeardown(activeSSE, conns, c, "completed")
              ELSE IF ~conns[c].continueOnError
                THEN SseTeardown(activeSSE, conns, c, "errored")
              ELSE <<activeSSE, conns>>
     IN  /\ activeSSE' = r[1]
         /\ sseConns' = r[2]
  /\ UNCHANGED NotSse

SseUnsubscribe(c) ==
  /\ c \in 1..Len(sseConns)
  /\ sseConns[c].sub = "active"
  /\ LET r == SseTeardown(activeSSE, sseConns, c, "unsubscribed")
     IN  /\ activeSSE' = r[1]
         /\ sseConns' = r[2]
  /\ UNCHANGED NotSse

InitSse ==
  /\ activeSSE = [id \in SseIds |-> 0]
  /\ sseConns = <<>>

\* ----------------------------------------- ApiService.createPaginatedStream
PageSize == 2
DefaultInitialPage == 1
PagedEndpoint == "/users"
NotStream == <<cacheVars, apiReqs, httpCalls, retryVars, pollVars, sseVars, wsVars, reqVars, rstream, bat, opt, pchg>>

\* the items the server holds on a page, and its answer to a page request:
\* <<response.data, response.meta.hasNextPage>>
PageItems(page) == [i \in 1..PageSize |-> <<page, i>>]
PageResp(page) == <<PageItems(page), page < MaxPages>>

NoStream == [st |-> "none", cacheOn |-> FALSE, ttl |-> -1, page |-> 0, data |-> <<>>,
             loading |-> FALSE, hasMore |-> FALSE, error |-> FALSE, inflight |-> 0]

\* the subscribe callback of the page pipeline: the response of the request
\* for the current page replaces the list on the initial page and is appended
\* to it on every other page
OnPageResponse(ps, response) ==
  [ps EXCEPT !.loading = FALSE, !.error = FALSE, !.inflight = 0,
             !.data = IF ps.page = DefaultInitialPage THEN response[1]
                      ELSE ps.data \o response[1],
             !.hasMore = response[2]]

\* page$.next(page): tap sets loading$, switchMap drops the request in flight
\* and calls getPaginated(endpoint, {page, pageSize}, requestConfig), i.e.
\* get(): with caching enabled a fresh entry under the url answers at once,
\* else the page is requested. Gives <<stream, response cache>>.
StartPage(ps, c, page, t) ==
  LET key == buildUrl(PagedEndpoint)
      ps1 == [ps EXCEPT !.page = page, !.loading = TRUE, !.inflight = 0]
  IN  IF ps.cacheOn /\ ApiCacheFresh(c, key, t)
        THEN <<OnPageResponse(ps1, c[key].data), c>>
      ELSE IF ps.cacheOn
        THEN <<[ps1 EXCEPT !.inflight = page], [c EXCEPT ![key] = NoApiEntry]>>
      ELSE <<[ps1 EXCEPT !.inflight = page], c>>

\* createPaginatedStream(endpoint, {pageSize, requestConfig}): the subjects
\* are created and the pipeline is subscribed, which requests the initial page
CreatePaginatedStream(cacheOn, ttl) ==
  LET r == StartPage([NoStream EXCEPT !.st = "live", !.cacheOn = cacheOn,
                                     !.ttl = CacheTtlOf(ttl), !.hasMore = TRUE],
                     apiCache, DefaultInitialPage, now)
  IN  /\ pstream.st = "none"
      /\ cacheOn \/ ttl = NoTtl
      /\ pstream' = r[1]
      /\ apiCache' = r[2]
      /\ UNCHANGED now
      /\ UNCHANGED NotStream

\* the page requested arrives: get() caches it when caching is on, then the
\* subscribe callback runs
PageRespond ==
  /\ pstream.st = "live"
  /\ pstream.inflight # 0
  /\ pstream' = OnPageResponse(pstream, PageResp(pstream.inflight))
  /\ apiCache' = IF pstream.cacheOn
                   THEN setCache(apiCache, buildUrl(PagedEndpoint),
                                 PageResp(pstream.inflight), pstream.ttl, now)
                   ELSE apiCache
  /\ UNCHANGED now
  /\ UNCHANGED NotStream

PageFail_ClearsLoading ==
  /\ pstream.st = "live"
  /\ pstream.inflight # 0
  /\ pstream' = [pstream EXCEPT !.error = TRUE, !.inflight = 0, !.loading = FALSE]
  /\ UNCHANGED <<now, apiCache>>
  /\ UNCHANGED NotStream

\* the page request fails: catchError hands the error to error$ and ends the
\* inner stream; loading$ is not reset
PageFail ==
  /\ pstream.st = "live"
  /\ pstream.inflight # 0
  /\ pstream' = [pstream EXCEPT !.error = TRUE, !.inflight = 0]
  /\ UNCHANGED <<now, apiCache>>
  /\ UNCHANGED NotStream

\* loadMore(): nothing while loading or when the server reported no next page
LoadMore ==
  LET r == StartPage(pstream, apiCache, pstream.page + 1, now)
  IN  /\ pstream.st = "live"
      /\ ~pstream.loading /\ pstream.hasMore
      /\ pstream.page <= MaxPages     \* cap: a cached page keeps hasMore$ true
      /\ pstream' = r[1]
      /\ apiCache' = r[2]
      /\ UNCHANGED now
      /\ UNCHANGED NotStream

\* reset(): data$.next([]); hasMore$.next(true); page$.next(initialPage)
ResetStream ==
  LET r == StartPage([pstream EXCEPT !.data = <<>>, !.hasMore = TRUE], apiCache,
                     DefaultInitialPage, now)
  IN  /\ pstream.st = "live"
      /\ pstream' = r[1]
      /\ apiCache' = r[2]
      /\ UNCHANGED now
      /\ UNCHANGED NotStream

\* destroy(): stop$ fires and every subject completes; a completed subject
\* takes no further value
DestroyStream ==
  /\ pstream.st = "live"
  /\ pstream' = [pstream EXCEPT !.st = "destroyed", !.inflight = 0]
  /\ UNCHANGED <<now, apiCache>>
  /\ UNCHANGED NotStream

InitStream == pstream = NoStream

\* ------------------------------------------ ApiService.createReactiveStream
\* The stream is refresh$.pipe(takeUntil(stop$), switchMap(get), finalize),
\* followed by shareReplay(1) unless config.shareReplay is false. Requests are
\* numbered in the order they are issued and answer with their number;
\* config.retry and requestConfig.cache are left unset.
NotReactive == <<now, cacheVars, apiVars, retryVars, pollVars, sseVars, wsVars, reqVars, pstream, bat, opt, pchg>>
ErrValue == 0         \* the error, emitted as a value under emitErrorAsValue
NoValue == -1         \* an empty replay buffer

NoConn == [st |-> "none", req |-> 0, buf |-> NoValue]
NoReactive == [st |-> "none", share |-> FALSE, errAsValue |-> FALSE, refreshOpen |-> FALSE,
               gets |-> 0, calls |-> 0, cancelled |-> {}, subs |-> <<>>, conn |-> NoConn]

\* the subscriptions a value, completion or error of the source reaches
Listening(rs) == {s \in DOMAIN rs.subs : rs.subs[s].st = "subscribed"}

\* finalize(): refresh$.complete(); stop$.complete(). A pipeline whose request
\* is still pending completes when that request does, every other one at once.
RsFinalize(rs) ==
  [rs EXCEPT !.refreshOpen = FALSE,
             !.subs = [s \in DOMAIN rs.subs |->
                         IF ~rs.share /\ rs.subs[s].st = "subscribed" /\ rs.subs[s].req = 0
                           THEN [rs.subs[s] EXCEPT !.st = "completed"]
                           ELSE rs.subs[s]]]

\* createReactiveStream(endpoint, config): nothing is subscribed yet
CreateReactiveStream(share, errAsValue) ==
  /\ rstream.st = "none"
  /\ rstream' = [NoReactive EXCEPT !.st = "created", !.share = share,
                                   !.errAsValue = errAsValue, !.refreshOpen = TRUE]
  /\ UNCHANGED NotReactive

\* data$.subscribe() without shareReplay: the subscription gets a pipeline of
\* its own; refresh$ replays its value, and switchMap issues the GET, unless
\* refresh$ has completed, and then the pipeline completes without a value
SubscribeOwn(rs) ==
  IF rs.refreshOpen
    THEN [rs EXCEPT !.gets = rs.gets + 1,
                    !.subs = Append(rs.subs, [st |-> "subscribed", got |-> <<>>,
                                              req |-> rs.gets + 1])]
    ELSE [rs EXCEPT !.subs = Append(rs.subs, [st |-> "completed", got |-> <<>>, req |-> 0])]

\* data$.subscribe() through shareReplay(1): the first subscription, and the
\* first after an error, subscribes the pipeline; a later one joins it and is
\* replayed the last value; after completion only the replay is delivered
SubscribeShared(rs) ==
  LET replay == IF rs.conn.buf = NoValue THEN <<>> ELSE <<rs.conn.buf>>
  IN  IF rs.conn.st = "done"
        THEN [rs EXCEPT !.subs = Append(rs.subs, [st |-> "completed", got |-> replay,
                                                  req |-> 0])]
      ELSE IF rs.conn.st = "live"
        THEN [rs EXCEPT !.subs = Append(rs.subs, [st |-> "subscribed", got |-> replay,
                                                  req |-> 0])]
      ELSE IF rs.refreshOpen
        THEN [rs EXCEPT !.gets = rs.gets + 1,
                        !.conn = [st |-> "live", req |-> rs.gets + 1, buf |-> NoValue],
                        !.subs = Append(rs.subs, [st |-> "subscribed", got |-> <<>>,
                                                  req |-> 0])]
      ELSE [rs EXCEPT !.conn = [st |-> "done", req |-> 0, buf |-> NoValue],
                      !.subs = Append(rs.subs, [st |-> "completed", got |-> <<>>, req |-> 0])]

RsSubscribe ==
  /\ rstream.st = "created"
  /\ Len(rstream.subs) < MaxRsSubs
  /\ rstream.gets < MaxRsGets
  /\ rstream' = IF rstream.share THEN SubscribeShared(rstream) ELSE SubscribeOwn(rstream)
  /\ UNCHANGED NotReactive

\* refresh(): refresh$.next(). Every subscribed pipeline drops its pending
\* request and issues a new one; a completed refresh$ takes no value.
RefreshOwn(rs) ==
  LET live == Listening(rs)
      \* the pipelines are served in subscription order
      rank(s) == Cardinality({u \in live : u <= s})
  IN  [rs EXCEPT !.gets = rs.gets + Cardinality(live),
                 !.cancelled = rs.cancelled \cup
                               {rs.subs[s].req : s \in {u \in live : rs.subs[u].req # 0}},
                 !.subs = [s \in DOMAIN rs.subs |->
                             IF s \in live
                               THEN [rs.subs[s] EXCEPT !.req = rs.gets + rank(s)]
                               ELSE rs.subs[s]]]

RefreshShared(rs) ==
  IF rs.conn.st = "live"
    THEN [rs EXCEPT !.gets = rs.gets + 1,
                    !.cancelled = rs.cancelled \cup
                                  (IF rs.conn.req # 0 THEN {rs.conn.req} ELSE {}),
                    !.conn.req = rs.gets + 1]
    ELSE rs

RsRefresh ==
  LET rs == [rstream EXCEPT !.calls = rstream.calls + 1]
  IN  /\ rstream.st = "created"
      /\ rstream.calls < MaxRefreshes
      /\ rstream.gets < MaxRsGets
      /\ rstream' = IF ~rs.refreshOpen THEN rs
                    ELSE IF rs.share THEN RefreshShared(rs) ELSE RefreshOwn(rs)
      /\ UNCHANGED NotReactive

\* the pending request of a pipeline answers with value v and completes; the
\* pipeline completes with it when refresh$ has completed
DeliverOwn(rs, s, v) ==
  [rs EXCEPT !.subs[s] = [st |-> IF rs.refreshOpen THEN "subscribed" ELSE "completed",
                          got |-> Append(rs.subs[s].got, v), req |-> 0]]

DeliverShared(rs, v) ==
  [rs EXCEPT !.conn = [st |-> IF rs.refreshOpen THEN "live" ELSE "done", req |-> 0,
                       buf |-> v],
             !.subs = [s \in DOMAIN rs.subs |->
                         IF s \in Listening(rs)
                           THEN [rs.subs[s] EXCEPT
                                   !.got = Append(rs.subs[s].got, v),
                                   !.st = IF rs.refreshOpen THEN "subscribed"
                                          ELSE "completed"]
                           ELSE rs.subs[s]]]

\* the pending request fails and the error is rethrown: the pipeline errors
\* and finalize() runs; shareReplay passes the error on and resets
ErrorOwn(rs, s) ==
  RsFinalize([rs EXCEPT !.subs[s] = [rs.subs[s] EXCEPT !.st = "errored", !.req = 0]])

ErrorShared(rs) ==
  RsFinalize([rs EXCEPT !.conn = NoConn,
                      !.subs = [s \in DOMAIN rs.subs |->
                                  IF s \in Listening(rs)
                                    THEN [rs.subs[s] EXCEPT !.st = "errored"]
                                    ELSE rs.subs[s]]])

RsRespondOwn(s) ==
  /\ rstream.st = "created" /\ ~rstream.share
  /\ s \in Listening(rstream) /\ rstream.subs[s].req # 0
  /\ rstream' = DeliverOwn(rstream, s, rstream.subs[s].req)
  /\ UNCHANGED NotReactive

RsRespondShared ==
  /\ rstream.st = "created" /\ rstream.share
  /\ rstream.conn.st = "live" /\ rstream.conn.req # 0
  /\ rstream' = DeliverShared(rstream, rstream.conn.req)
  /\ UNCHANGED NotReactive

RsFailOwn(s) ==
  /\ rstream.st = "created" /\ ~rstream.share
  /\ s \in Listening(rstream) /\ rstream.subs[s].req # 0
  /\ rstream' = IF rstream.errAsValue THEN DeliverOwn(rstream, s, ErrValue)
                ELSE ErrorOwn(rstream, s)
  /\ UNCHANGED NotReactive

RsFailShared ==
  /\ rstream.st = "created" /\ rstream.share
  /\ rstream.conn.st = "live" /\ rstream.conn.req # 0
  /\ rstream' = IF rstream.errAsValue THEN DeliverShared(rstream, ErrValue)
                ELSE ErrorShared(rstream)
  /\ UNCHANGED NotReactive

\* a subscriber unsubscribes: its own pipeline is torn down, pending request
\* included, and finalize() runs; shareReplay(1) keeps the pipeline subscribed
RsUnsubscribe(s) ==
  /\ rstream.st = "created"
  /\ s \in Listening(rstream)
  /\ rstream' = IF rstream.share
                  THEN [rstream EXCEPT !.subs[s].st = "unsubscribed"]
                  ELSE RsFinalize([rstream EXCEPT
                                   !.subs[s] = [rstream.subs[s] EXCEPT
                                                  !.st = "unsubscribed", !.req = 0],
                                   !.cancelled = rstream.cancelled \cup
                                                 (IF rstream.subs[s].req # 0
                                                    THEN {rstream.subs[s].req} ELSE {})])
  /\ UNCHANGED NotReactive

InitReactive == rstream = NoReactive

\* ----------------------------------------------------------- ApiService.batch
\* batch(requests, config) over n request factories. A request stream emits
\* values, then completes or errors; the k-th value of request i is Val(i, k).
NotBatch == <<now, cacheVars, apiVars, retryVars, pollVars, sseVars, wsVars, reqVars,
              pstream, rstream, opt, pchg>>
Undefined == 0        \* a slot of new Array(n) nothing was written to
Val(i, k) == 10 * i + k

\* one request: starts counts the calls of its factory, emits the values of
\* the running stream, last its latest value, prefix the results the
\* sequential chain handed to it
IdleReq == [st |-> "idle", starts |-> 0, emits |-> 0, last |-> Undefined, prefix |-> <<>>]
NoBatch == [st |-> "none", sequential |-> FALSE, n |-> 0, reqs |-> <<>>, results |-> <<>>,
            completed |-> 0, hasError |-> FALSE, out |-> <<>>, errors |-> 0,
            firstErr |-> 0, order |-> <<>>]

\* requestFn(): the factory is called and the stream it returns subscribed
StartReq(r, prefix) ==
  [st |-> "running", starts |-> r.starts + 1, emits |-> 0, last |-> Undefined,
   prefix |-> prefix]

\* ---- parallel mode: the handlers of the subscription to request index
ParallelOnNext_Push(b, index, result) ==
  LET free == {j \in 1..b.n : b.results[j] = Undefined}
      slot == IF free = {} THEN index ELSE CHOOSE j \in free : \A k \in free : j <= k
  IN  [b EXCEPT !.results[slot] = result]

ParallelOnNext(b, index, result) == [b EXCEPT !.results[index] = result]

ParallelOnError(b, index) ==
  IF ~b.hasError
    THEN [b EXCEPT !.hasError = TRUE, !.errors = b.errors + 1, !.firstErr = index,
                   !.st = "errored"]
    ELSE b

ParallelOnComplete(b) ==
  LET b1 == [b EXCEPT !.completed = b.completed + 1]
  IN  IF b1.completed = b1.n /\ ~b1.hasError
        THEN [b1 EXCEPT !.out = Append(b1.out, b1.results), !.st = "done"]
        ELSE b1

\* ---- sequential mode: the switchMap chain built by reduce
\* stage i has completed: its source has, and so has its request, if any
RECURSIVE StageDone(_, _)
StageDone(b, i) ==
  IF i = 0 THEN TRUE
  ELSE StageDone(b, i - 1) /\ b.reqs[i].st \in {"idle", "completed"}

\* request index emits result: map appends it to the results handed down, and
\* the next switchMap drops its running request and calls its factory with
\* them; the last stage emits to the subscriber
SequentialOnNext(b, index, result) ==
  LET arr == Append(b.reqs[index].prefix, result)
  IN  IF index = b.n THEN [b EXCEPT !.out = Append(b.out, arr)]
      ELSE [b EXCEPT !.reqs[index + 1] = StartReq(b.reqs[index + 1], arr)]

\* an error passes down the chain to the subscriber, which unsubscribes the
\* whole chain
SequentialOnError(b, index) ==
  [b EXCEPT !.errors = b.errors + 1, !.firstErr = index, !.st = "errored",
            !.reqs = [j \in 1..b.n |->
                        IF b.reqs[j].st = "running" /\ j # index
                          THEN [b.reqs[j] EXCEPT !.st = "cancelled"]
                          ELSE b.reqs[j]]]

SequentialOnComplete(b) ==
  IF StageDone(b, b.n) THEN [b EXCEPT !.st = "done"] ELSE b

\* batch(requests, config).subscribe(): in parallel every factory is called,
\* in sequence of([]) emits and the first factory is called; reduce over an
\* empty list gives of([]) itself, which emits [] and completes
BatchSubscribe(n, sequential) ==
  LET reqs == [i \in 1..n |-> IF ~sequential \/ i = 1 THEN StartReq(IdleReq, <<>>)
                              ELSE IdleReq]
      b == [NoBatch EXCEPT !.st = "running", !.sequential = sequential, !.n = n,
                           !.reqs = reqs,
                           !.results = [i \in 1..n |-> Undefined]]
  IN  /\ bat.st = "none"
      /\ bat' = IF sequential /\ n = 0
                  THEN [b EXCEPT !.out = <<<<>>>>, !.st = "done"]
                  ELSE b
      /\ UNCHANGED NotBatch

ReqNext(i) ==
  LET v == Val(i, bat.reqs[i].emits + 1)
      b == [bat EXCEPT !.reqs[i].emits = bat.reqs[i].emits + 1, !.reqs[i].last = v]
  IN  /\ bat.st # "none"
      /\ i \in 1..bat.n
      /\ bat.reqs[i].st = "running"
      /\ bat.reqs[i].emits < MaxReqEmits
      /\ bat' = IF bat.sequential THEN SequentialOnNext(b, i, v)
                ELSE ParallelOnNext(b, i, v)
      /\ UNCHANGED NotBatch

ReqComplete(i) ==
  LET b == [bat EXCEPT !.reqs[i].st = "completed", !.order = Append(bat.order, i)]
  IN  /\ bat.st # "none"
      /\ i \in 1..bat.n
      /\ bat.reqs[i].st = "running"
      /\ bat' = IF bat.sequential THEN SequentialOnComplete(b) ELSE ParallelOnComplete(b)
      /\ UNCHANGED NotBatch

ReqFail(i) ==
  LET b == [bat EXCEPT !.reqs[i].st = "errored", !.order = Append(bat.order, i)]
  IN  /\ bat.st # "none"
      /\ i \in 1..bat.n
      /\ bat.reqs[i].st = "running"
      /\ bat' = IF bat.sequential THEN SequentialOnError(b, i) ELSE ParallelOnError(b, i)
      /\ UNCHANGED NotBatch

\* a request stream that emits one value and completes: its value
ReqValue(i) ==
  /\ i \in 1..bat.n
  /\ bat.reqs[i].emits = 0
  /\ ReqNext(i)

\* and its completion
ReqDone(i) ==
  /\ i \in 1..bat.n
  /\ bat.reqs[i].emits = 1
  /\ ReqComplete(i)

InitBatch == bat = NoBatch

\* ------------------------------------------------ ApiService.optimisticUpdate
\* optimisticUpdate(requestFn, applyOptimistic, rollback). store is the state
\* of the caller the two callbacks write: applyOptimistic puts the optimistic
\* value, rollback the original one. requestFn returns a cold request stream:
\* every subscription to the returned stream issues the request.
NotOptimistic == <<now, cacheVars, apiVars, retryVars, pollVars, sseVars, wsVars, reqVars,
                   pstream, rstream, bat, pchg>>
NoOptimistic == [st |-> "none", store |-> "original", applyCalls |-> 0, rollbackCalls |-> 0,
                 subs |-> <<>>]

applyOptimistic(o) == [o EXCEPT !.store = "optimistic", !.applyCalls = o.applyCalls + 1]
rollback(o) == [o EXCEPT !.store = "original", !.rollbackCalls = o.rollbackCalls + 1]

\* catchError of subscription s: rollback(), then throwError(() => error)
OptOnError(o, s) ==
  [rollback(o) EXCEPT !.subs[s] = [st |-> "errored", log |-> <<"rollback", "error">>]]

\* optimisticUpdate(...): applyOptimistic() runs at once, then requestFn() is
\* called and its stream piped; a requestFn that throws leaves the call
\* without a stream
OptimisticUpdate(throws) ==
  /\ opt.st = "none"
  /\ opt' = [applyOptimistic(opt) EXCEPT !.st = IF throws THEN "threw" ELSE "called"]
  /\ UNCHANGED NotOptimistic

\* the returned stream is subscribed: the request is issued
OptSubscribe ==
  /\ opt.st = "called"
  /\ Len(opt.subs) < MaxOptSubs
  /\ opt' = [opt EXCEPT !.subs = Append(opt.subs, [st |-> "pending", log |-> <<>>])]
  /\ UNCHANGED NotOptimistic

OptSucceed(s) ==
  /\ s \in DOMAIN opt.subs
  /\ opt.subs[s].st = "pending"
  /\ opt' = [opt EXCEPT !.subs[s] = [st |-> "succeeded", log |-> <<"next", "complete">>]]
  /\ UNCHANGED NotOptimistic

OptFail(s) ==
  /\ s \in DOMAIN opt.subs
  /\ opt.subs[s].st = "pending"
  /\ opt' = OptOnError(opt, s)
  /\ UNCHANGED NotOptimistic

OptUnsubscribe(s) ==
  /\ s \in DOMAIN opt.subs
  /\ opt.subs[s].st = "pending"
  /\ opt' = [opt EXCEPT !.subs[s].st = "unsubscribed"]
  /\ UNCHANGED NotOptimistic

InitOptimistic == opt = NoOptimistic

\* ------------------------------------------- ApiService.poll: emitOnlyOnChange
\* One subscription of poll(endpoint, config) and the responses its requests
\* bring. A response is an object {v, w}; config.compareFn is absent or
\* compares the v property only.
NotPollChange == <<now, cacheVars, apiVars, retryVars, pollVars, sseVars, wsVars, reqVars,
                   pstream, rstream, bat, opt>>
Responses == [v : 1..2, w : 1..2]
CompareFns == {"default", "sameV"}
NoPollChange == [st |-> "none", emitOnlyOnChange |-> FALSE, compareFn |-> "default",
                 got |-> <<>>, out |-> <<>>, first |-> TRUE, prev |-> [v |-> 0, w |-> 0]]

\* JSON.stringify of a response
Digit(n) == IF n = 0 THEN "0" ELSE IF n = 1 THEN "1" ELSE "2"
JSONstringify(a) == "{\"v\":" \o Digit(a.v) \o ",\"w\":" \o Digit(a.w) \o "}"

\* compareFn(a, b): config.compareFn ?? JSON.stringify(a) === JSON.stringify(b)
compareFn(f, a, b) ==
  IF f = "default" THEN JSONstringify(a) = JSONstringify(b) ELSE a.v = b.v

\* distinctUntilChanged((prev, curr) => compareFn(prev, curr)): the first
\* value passes; a later one passes when the comparator says it is not the
\* same as the last value passed, and becomes the value to compare with
DistinctUntilChanged_Inverted(p, curr) ==
  IF p.first \/ compareFn(p.compareFn, p.prev, curr)
    THEN [p EXCEPT !.first = FALSE, !.prev = curr, !.out = Append(p.out, curr)]
    ELSE p

DistinctUntilChanged(p, curr) ==
  IF p.first \/ ~compareFn(p.compareFn, p.prev, curr)
    THEN [p EXCEPT !.first = FALSE, !.prev = curr, !.out = Append(p.out, curr)]
    ELSE p

\* poll(endpoint, config).subscribe(): the timer starts
PollChangeSubscribe(emitOnlyOnChange, f) ==
  /\ pchg.st = "none"
  /\ emitOnlyOnChange \/ f = "default"
  /\ pchg' = [NoPollChange EXCEPT !.st = "ticking", !.emitOnlyOnChange = emitOnlyOnChange,
                                  !.compareFn = f]
  /\ UNCHANGED NotPollChange

\* a timer tick's request brings a response: source$ emits it
PollChangeRespond(curr) ==
  LET p == [pchg EXCEPT !.got = Append(pchg.got, curr)]
  IN  /\ pchg.st = "ticking"
      /\ Len(pchg.got) < MaxPollValues
      /\ pchg' = IF p.emitOnlyOnChange THEN DistinctUntilChanged(p, curr)
                 ELSE [p EXCEPT !.out = Append(p.out, curr)]
      /\ UNCHANGED NotPollChange

PollChangeUnsubscribe ==
  /\ pchg.st = "ticking"
  /\ pchg' = [pchg EXCEPT !.st = "closed"]
  /\ UNCHANGED NotPollChange

InitPollChange == pchg = NoPollChange

\* ------------------------------------------------------- ApiService.dispose
\* stopAllPolls() as <<activePolls, polls, pollSubs>>: every registered stop$
\* emits and completes, then the map is cleared
StopAllPollsOn(ap, ps, subs) ==
  LET reg == {ap[id] : id \in PollIds} \ {0}
  IN  <<[id \in PollIds |-> 0],
        [p \in 1..Len(ps) |-> IF p \in reg THEN [ps[p] EXCEPT !.stopSt = "completed"]
                                            ELSE ps[p]],
        [s \in 1..Len(subs) |-> IF subs[s].poll \in reg THEN StopSub(subs[s], subs[s].poll)
                                                         ELSE subs[s]]>>

\* closeAllSSE() as <<activeSSE, sseConns>>: every registered EventSource is
\* closed, then the map is cleared
CloseAllSseOn(reg, conns) ==
  LET open == {reg[id] : id \in SseIds} \ {0}
  IN  <<[id \in SseIds |-> 0],
        [c \in 1..Len(conns) |-> IF c \in open
                                   THEN [conns[c] EXCEPT !.ready = "closed",
                                                         !.closedBySse = TRUE]
                                   ELSE conns[c]]>>

\* dispose(): stopAllPolls(); closeAllSSE(); clearCache()
Dispose ==
  LET p == StopAllPollsOn(activePolls, polls, pollSubs)
      e == CloseAllSseOn(activeSSE, sseConns)
  IN  /\ activePolls' = p[1]
      /\ polls' = p[2]
      /\ pollSubs' = p[3]
      /\ activeSSE' = e[1]
      /\ sseConns' = e[2]
      /\ apiCache' = [k \in ApiCacheKeys |-> NoApiEntry]
      /\ UNCHANGED <<now, apiReqs, httpCalls, cacheVars, retryVars, wsVars, reqVars, streamVars>>

\* ------------------------------------------------------------ WebSocketService
DefaultHeartbeatInterval == 30000

NoConfig == [reconnect |-> FALSE, reconnectAttempts |-> -1, heartbeatInterval |-> -1]

\* The fields of the service, as one value the handlers transform.
WS == [state |-> wsState, config |-> wsConfig, attempts |-> wsAttempts, error |-> wsError,
       heartbeat |-> heartbeatTimer, cur |-> socketCur, sockets |-> sockets,
       timers |-> wsTimers]

WsCommit(w) ==
  /\ wsState' = w.state
  /\ wsConfig' = w.config
  /\ wsAttempts' = w.attempts
  /\ wsError' = w.error
  /\ heartbeatTimer' = w.heartbeat
  /\ socketCur' = w.cur
  /\ sockets' = w.sockets
  /\ wsTimers' = w.timers

stopHeartbeat(w) == [w EXCEPT !.heartbeat = FALSE]

\* startHeartbeat(): nothing without config.heartbeatInterval
startHeartbeat(w) ==
  IF w.config = NoConfig \/ w.config.heartbeatInterval <= 0 THEN w
  ELSE [stopHeartbeat(w) EXCEPT !.heartbeat = TRUE]

\* attemptReconnect()
attemptReconnect(w) ==
  IF w.config = NoConfig THEN w
  ELSE IF w.attempts >= w.config.reconnectAttempts THEN [w EXCEPT !.error = "max"]
  ELSE [w EXCEPT !.state = "reconnecting", !.attempts = @ + 1, !.timers = @ + 1]

\* createConnection(): a new WebSocketSubject replaces socket$ and is
\* subscribed, which opens the socket; the state is not touched
createConnection(w, byReconnect) ==
  IF w.config = NoConfig THEN w
  ELSE [w EXCEPT !.sockets = Append(@, [status |-> "connecting", subAlive |-> TRUE,
                                        queueDone |-> FALSE, byReconnect |-> byReconnect,
                                        opened |-> FALSE, unclean |-> FALSE]),
                 !.cur = Len(w.sockets) + 1]

\* socket$.complete() on the subject i: an open socket is closed, a socket
\* still connecting has the completion queued until it opens
completeSocket(socks, i) ==
  IF socks[i].status = "open" THEN [socks EXCEPT ![i].status = "closing"]
  ELSE IF socks[i].status = "connecting" THEN [socks EXCEPT ![i].queueDone = TRUE]
  ELSE socks

\* disconnect()
disconnect(w) ==
  LET w1 == stopHeartbeat(w)
      w2 == IF w1.cur # 0
              THEN [w1 EXCEPT !.sockets = completeSocket(@, w1.cur), !.cur = 0]
              ELSE w1
  IN  [w2 EXCEPT !.state = "disconnected", !.config = NoConfig, !.attempts = 0]

\* connect(config)
connect(w, config) ==
  LET w1 == IF w.cur # 0 THEN disconnect(w) ELSE w
      w2 == [w1 EXCEPT !.config = config, !.state = "connecting", !.error = "none",
                       !.attempts = 0]
  IN  createConnection(w2, FALSE)

\* openObserver.next
onOpen(w) ==
  startHeartbeat([w EXCEPT !.state = "connected", !.error = "none", !.attempts = 0])

\* closeObserver.next(event)
onClose(w, wasClean) ==
  LET w1 == stopHeartbeat([w EXCEPT !.state = "disconnected"])
  IN  IF w1.config.reconnect /\ ~wasClean THEN attemptReconnect(w1) ELSE w1

\* the error callback of the subscription createConnection() made
onSocketError(w) ==
  LET w1 == [w EXCEPT !.error = "transport", !.state = "error"]
  IN  IF w1.config.reconnect THEN attemptReconnect(w1) ELSE w1

\* ---- public calls
Connect(reconnect, maxAttempts) ==
  /\ Len(sockets) < MaxSockets
  /\ WsCommit(connect(WS, [reconnect |-> reconnect, reconnectAttempts |-> maxAttempts,
                           heartbeatInterval |-> DefaultHeartbeatInterval]))
  /\ UNCHANGED NotWs

Disconnect ==
  /\ WS # disconnect(WS)
  /\ WsCommit(disconnect(WS))
  /\ UNCHANGED NotWs

\* ---- events of the browser socket of subject i, as rxjs webSocket hands them on
\* open: openObserver, then a queued complete() closes the socket
SocketOpen(i) ==
  /\ i \in 1..Len(sockets)
  /\ sockets[i].status = "connecting"
  /\ LET w1 == onOpen(WS)
     IN  WsCommit([w1 EXCEPT !.sockets[i].opened = TRUE,
                             !.sockets[i].status =
                                IF sockets[i].queueDone THEN "closing" ELSE "open"])
  /\ UNCHANGED NotWs

\* error: the subject's stream fails (once); the close event follows
SocketError(i) ==
  /\ i \in 1..Len(sockets)
  /\ sockets[i].status \in {"connecting", "open"}
  /\ LET w1 == IF sockets[i].subAlive THEN onSocketError(WS) ELSE WS
     IN  WsCommit([w1 EXCEPT !.sockets[i].status = "errored",
                             !.sockets[i].subAlive = FALSE])
  /\ UNCHANGED NotWs

\* close: closeObserver first, then the stream completes (clean) or fails
SocketClose(i, wasClean) ==
  /\ i \in 1..Len(sockets)
  /\ \/ sockets[i].status = "open"
     \/ sockets[i].status = "errored" /\ ~wasClean
     \/ sockets[i].status = "closing" /\ wasClean
  /\ LET w1 == onClose(WS, wasClean)
         w2 == IF ~wasClean /\ sockets[i].subAlive THEN onSocketError(w1) ELSE w1
     IN  WsCommit([w2 EXCEPT !.sockets[i].status = "closed",
                             !.sockets[i].subAlive = FALSE,
                             !.sockets[i].unclean = ~wasClean])
  /\ UNCHANGED NotWs

\* the timer attemptReconnect() started fires
ReconnectTimer ==
  /\ wsTimers > 0
  /\ wsState = "reconnecting" /\ wsConfig # NoConfig => Len(sockets) < MaxSockets
  /\ LET w1 == [WS EXCEPT !.timers = @ - 1]
     IN  WsCommit(IF wsState = "reconnecting" THEN createConnection(w1, TRUE) ELSE w1)
  /\ UNCHANGED NotWs

\* ---- request(type, payload, responseType, timeout)
\* the ids generateMessageId() gave to request() calls, and the timeouts
ReqIds == {"r1", "r2"}
Timeouts == {1, 2}
MsgTypes == {"res", "other"}
NotReqs == <<cacheVars, apiVars, retryVars, pollVars, sseVars, streamVars>>

\* a socket whose messages reach messagesSubject
Receiving == \E i \in 1..Len(sockets) : sockets[i].status = "open" /\ sockets[i].subAlive

\* the cleanup function: clearTimeout(timeoutId); subscription.unsubscribe()
ReqTeardown(q) == [q EXCEPT !.timer = FALSE, !.msgSub = FALSE]

\* a response that kept the timer armed
OnResponse_KeepTimer(q) ==
  [q EXCEPT !.st = "completed", !.emitted = @ + 1, !.msgSub = FALSE]

\* next of the message subscription: clearTimeout, subscriber.next(response),
\* subscriber.complete(), which runs the cleanup function
OnResponse(q) ==
  ReqTeardown([q EXCEPT !.timer = FALSE, !.st = "completed", !.emitted = @ + 1])

\* the setTimeout callback: subscriber.error(...), which runs the cleanup function
OnTimeout(q, t) == ReqTeardown([q EXCEPT !.st = "failed", !.endAt = t])

\* the stream request() returned for message id is subscribed: the timer is
\* set, messages$ is filtered for the response, and send() passes the request
\* on only when the socket is connected
RequestSubscribe(id, timeout) ==
  /\ Len(wsReqs) < MaxWsReqs
  /\ wsReqs' = Append(wsReqs,
        [id |-> id, timeout |-> timeout, at |-> now, st |-> "pending", timer |-> TRUE,
         msgSub |-> TRUE, emitted |-> 0, endAt |-> -1,
         sent |-> (socketCur # 0 /\ wsState = "connected")])
  /\ UNCHANGED <<now, wsVars>>
  /\ UNCHANGED NotReqs

\* a message arrives on the socket: every request whose filter it passes gets
\* its response
WsMessage(type, id) ==
  /\ Receiving
  /\ \E q \in 1..Len(wsReqs) : wsReqs[q].msgSub
  /\ wsReqs' = [q \in 1..Len(wsReqs) |->
                  IF wsReqs[q].msgSub /\ type = "res" /\ wsReqs[q].id = id
                    THEN OnResponse(wsReqs[q])
                    ELSE wsReqs[q]]
  /\ UNCHANGED <<now, wsVars>>
  /\ UNCHANGED NotReqs

\* the timer of a request fires, at its time or later
RequestTimeout(q) ==
  /\ q \in 1..Len(wsReqs)
  /\ wsReqs[q].timer
  /\ now >= wsReqs[q].at + wsReqs[q].timeout
  /\ wsReqs' = [wsReqs EXCEPT ![q] = OnTimeout(@, now)]
  /\ UNCHANGED <<now, wsVars>>
  /\ UNCHANGED NotReqs

\* the caller unsubscribes before an outcome
RequestUnsubscribe(q) ==
  /\ q \in 1..Len(wsReqs)
  /\ wsReqs[q].st = "pending"
  /\ wsReqs' = [wsReqs EXCEPT ![q] = ReqTeardown([@ EXCEPT !.st = "unsubscribed"])]
  /\ UNCHANGED <<now, wsVars>>
  /\ UNCHANGED NotReqs

InitWs ==
  /\ wsReqs = <<>>
  /\ wsState = "disconnected"
  /\ wsConfig = NoConfig
  /\ wsAttempts = 0
  /\ wsError = "none"
  /\ heartbeatTimer = FALSE
  /\ socketCur = 0
  /\ sockets = <<>>
  /\ wsTimers = 0

Tick ==
  /\ now < MaxTime
  /\ now' = now + 1
  /\ UNCHANGED <<cacheVars, apiVars, retryVars, pollVars, sseVars, wsVars, reqVars, streamVars>>

InitCache ==
  /\ cache = [k \in Keys |-> NoEntry]
  /\ observables = [k \in Keys |-> 0]
  /\ stats = [hits |-> 0, misses |-> 0, size |-> 0]
  /\ streams = <<>>
  /\ factoryCalls = [k \in Keys |-> 0]
  /\ cacheOrder = <<>>
  /\ returned = NoReturn

Init ==
  /\ now = 0
  /\ InitCache
  /\ InitApi
  /\ InitRetry
  /\ InitPoll
  /\ InitSse
  /\ InitWs
  /\ InitStream
  /\ InitReactive
  /\ InitBatch
  /\ InitOptimistic
  /\ InitPollChange

\* wrap() and the invalidation calls that reach its pending observables
NextCache ==
  \/ \E k \in Keys : Delete(k)
  \/ Clear
  \/ \E k \in Keys, ttl \in TTLs : Wrap(k, ttl)
  \/ \E s \in 1..MaxStreams : WrapSubscribe(s)
  \/ \E s \in 1..MaxStreams : WrapUnsubscribe(s)
  \/ \E s \in 1..MaxStreams, v \in Values : SourceSucceed(s, v)
  \/ \E s \in 1..MaxStreams : SourceFail(s)
  \/ Tick

SpecCache == Init /\ [][NextCache]_vars

\* the TTL store: every public call of CacheService that reads or writes entries
NextStore ==
  \/ \E k \in Keys : Get(k)
  \/ \E k \in Keys, v \in Values, ttl \in TTLs : Set(k, v, ttl)
  \/ \E k \in Keys : Has(k)
  \/ \E k \in Keys : Delete(k)
  \/ Clear
  \/ ClearExpired
  \/ \E p \in Patterns, g \in BOOLEAN : InvalidatePattern(p, g)
  \/ \E k \in Keys, v \in Values, ttl \in TTLs : GetOrSet(k, v, ttl)
  \/ Tick

SpecStore == Init /\ [][NextStore]_vars

NextApi ==
  \/ \E e \in Endpoints, p \in ParamSets, on \in BOOLEAN,
        ck \in ExplicitKeys \cup {NoKey}, ttl \in ApiTTLs : ApiGet(e, p, on, ck, ttl)
  \/ \E i \in 1..MaxReqs : ApiSubscribe(i)
  \/ \E i \in 1..MaxReqs : HttpRespond(i)
  \/ \E i \in 1..MaxReqs : ApiResubscribe(i)
  \/ \E i \in 1..MaxReqs : HttpFail(i)
  \/ \E k \in ApiCacheKeys : ApiClearCache(k)
  \/ ApiClearCacheAll
  \/ Tick

SpecApi == Init /\ [][NextApi]_vars

NextRetry ==
  \/ \E m \in 0..MaxRetriesCfg, d \in RetryDelays, b \in BOOLEAN, skip \in BOOLEAN :
        WithRetry(m, d, b, skip)
  \/ \E status \in Statuses : RequestFail(status)
  \/ RequestSucceed
  \/ RetryTimerFires

SpecRetry == Init /\ [][NextRetry]_vars

NextPoll ==
  \/ Dispose
  \/ \E id \in PollIds, c \in BOOLEAN : Poll(id, c)
  \/ \E id \in PollIds : StopPoll(id)
  \/ \E p \in 1..MaxPolls : PollSubscribe(p)
  \/ \E s \in 1..MaxPollSubs : PollTick(s)
  \/ \E s \in 1..MaxPollSubs : PollRespond(s)
  \/ \E s \in 1..MaxPollSubs : PollRequestFail(s)
  \/ \E s \in 1..MaxPollSubs : PollUnsubscribe(s)

SpecPoll == Init /\ [][NextPoll]_vars

NextSse ==
  \/ Dispose
  \/ \E id \in SseIds, c \in BOOLEAN : SseSubscribe(id, c)
  \/ \E id \in SseIds : CloseSSE(id)
  \/ \E c \in 1..MaxSse : SseOpen(c)
  \/ \E c \in 1..MaxSse : SseMessage(c)
  \/ \E c \in 1..MaxSse, fatal \in BOOLEAN : SseError(c, fatal)
  \/ \E c \in 1..MaxSse : SseUnsubscribe(c)

SpecSse == Init /\ [][NextSse]_vars

NextWs ==
  \/ \E r \in BOOLEAN, n \in 1..MaxReconnectCfg : Connect(r, n)
  \/ Disconnect
  \/ \E i \in 1..MaxSockets : SocketOpen(i)
  \/ \E i \in 1..MaxSockets : SocketError(i)
  \/ \E i \in 1..MaxSockets, wasClean \in BOOLEAN : SocketClose(i, wasClean)
  \/ ReconnectTimer

SpecWs == Init /\ [][NextWs]_vars

\* request() over a socket that is connected, opened and disconnected
NextRequest ==
  \/ Connect(FALSE, 1)
  \/ Disconnect
  \/ \E i \in 1..MaxSockets : SocketOpen(i)
  \/ \E id \in ReqIds, timeout \in Timeouts : RequestSubscribe(id, timeout)
  \/ \E type \in MsgTypes, id \in ReqIds : WsMessage(type, id)
  \/ \E q \in 1..MaxWsReqs : RequestTimeout(q)
  \/ \E q \in 1..MaxWsReqs : RequestUnsubscribe(q)
  \/ Tick

SpecRequest == Init /\ [][NextRequest]_vars

NextPaginated ==
  \/ \E on \in BOOLEAN, ttl \in ApiTTLs : CreatePaginatedStream(on, ttl)
  \/ PageRespond
  \/ PageFail
  \/ LoadMore
  \/ ResetStream
  \/ DestroyStream
  \/ Tick

SpecPaginated == Init /\ [][NextPaginated]_vars

NextReactive ==
  \/ \E share \in BOOLEAN, errAsValue \in BOOLEAN : CreateReactiveStream(share, errAsValue)
  \/ RsSubscribe
  \/ RsRefresh
  \/ \E s \in 1..MaxRsSubs : RsRespondOwn(s)
  \/ RsRespondShared
  \/ \E s \in 1..MaxRsSubs : RsFailOwn(s)
  \/ RsFailShared
  \/ \E s \in 1..MaxRsSubs : RsUnsubscribe(s)

SpecReactive == Init /\ [][NextReactive]_vars

NextParallel ==
  \/ \E n \in 1..MaxBatch : BatchSubscribe(n, FALSE)
  \/ \E i \in 1..MaxBatch : ReqNext(i)
  \/ \E i \in 1..MaxBatch : ReqComplete(i)
  \/ \E i \in 1..MaxBatch : ReqFail(i)

SpecParallel == Init /\ [][NextParallel]_vars

NextSequential ==
  \/ \E n \in 1..MaxBatch : BatchSubscribe(n, TRUE)
  \/ \E i \in 1..MaxBatch : ReqNext(i)
  \/ \E i \in 1..MaxBatch : ReqComplete(i)
  \/ \E i \in 1..MaxBatch : ReqFail(i)

SpecSequential == Init /\ [][NextSequential]_vars

\* batch() in either mode over 0..MaxList requests that each emit one value
\* and complete; every request stream eventually does both
NextBatchModes ==
  \/ \E n \in 0..MaxList, sequential \in BOOLEAN : BatchSubscribe(n, sequential)
  \/ \E i \in 1..MaxList : ReqValue(i)
  \/ \E i \in 1..MaxList : ReqDone(i)

SpecBatchModes ==
  /\ Init /\ [][NextBatchModes]_vars
  /\ WF_vars(\E i \in 1..MaxList : ReqValue(i))
  /\ WF_vars(\E i \in 1..MaxList : ReqDone(i))

NextOptimistic ==
  \/ \E throws \in BOOLEAN : OptimisticUpdate(throws)
  \/ OptSubscribe
  \/ \E s \in 1..MaxOptSubs : OptSucceed(s)
  \/ \E s \in 1..MaxOptSubs : OptFail(s)
  \/ \E s \in 1..MaxOptSubs : OptUnsubscribe(s)

SpecOptimistic == Init /\ [][NextOptimistic]_vars

NextPollChange ==
  \/ \E e \in BOOLEAN, f \in CompareFns : PollChangeSubscribe(e, f)
  \/ \E r \in Responses : PollChangeRespond(r)
  \/ PollChangeUnsubscribe

SpecPollChange == Init /\ [][NextPollChange]_vars

\* ================================================================== claims

InFlightOf(k) == {s \in 1..Len(streams) : streams[s].key = k /\ streams[s].st = "inflight"}

\* C1: wrap(key, ...) called any number of times before a result was delivered
\* invokes factory once, and a key never has two factory streams in flight.
C1_SingleFlightPerKey ==
  \A k \in Keys :
    /\ Cardinality(InFlightOf(k)) <= 1
    /\ (\A s \in 1..Len(streams) : streams[s].key = k => streams[s].st # "done")
         => factoryCalls[k] <= 1

\* C2: once a wrapped request has terminated, with a value or with an error,
\* it is no longer registered as the pending observable of its key.
C2_PendingRemovedOnTermination ==
  \A s \in 1..Len(streams) :
    streams[s].st \in {"done", "failed"} => observables[streams[s].key] # s

\* C3: cache-enabled get() calls with the same cache key that are subscribed
\* before the first response share one in-flight HTTP request.
C3_OneRequestPerCacheKey ==
  \A i, j \in 1..Len(apiReqs) :
    ( /\ i # j
      /\ apiReqs[i].cacheOn /\ apiReqs[j].cacheOn
      /\ CacheKeyOf(apiReqs[i]) = CacheKeyOf(apiReqs[j])
      /\ apiReqs[i].st = "inflight" )
    => apiReqs[j].st # "inflight"

\* the HTTP status behind an error, raw or normalized
StatusOf(error) == IF error.kind = "HttpErrorResponse" THEN error.status ELSE error.code

\* C6: a failure whose status is not in retryStatuses is never retried: no
\* backoff timer runs after it, whether the error arrives raw or normalized.
C6_NoRetryOutsideRetryStatuses ==
  retryPhase = "waiting" => StatusOf(retryLast) \in retryStatuses

\* the delay the specification gives for retry n
DocumentedDelay(cfg, n) ==
  IF cfg.exponentialBackoff
    THEN Min(cfg.retryDelay * 2 ^ (n - 1), MaxBackoffMs)
    ELSE cfg.retryDelay

\* C7: the delay before retry n is retryDelay, or min(retryDelay * 2^(n-1),
\* 30000) with exponential backoff: 1000, 2000, 4000 for retryDelay 1000.
C7_DelaySchedule ==
  \A n \in 1..Len(retryDelays) : retryDelays[n] = DocumentedDelay(retryCfg, n)

\* C8: at most maxRetries + 1 attempts and maxRetries timers; when the attempt
\* after the last retry fails the stream has failed with that error and no
\* timer is pending.
C8_BoundedRetries ==
  /\ retryAttempts <= retryCfg.maxRetries + 1
  /\ Len(retryDelays) <= retryCfg.maxRetries
  /\ (retryAttempts = retryCfg.maxRetries + 1 /\ retryLast # NoError
        /\ retryCount = retryCfg.maxRetries /\ retryPhase # "requesting"
        /\ retryPhase # "done")
       => (retryPhase = "failed" /\ retryErr = retryLast)

C8_Witness ==
  /\ retryPhase = "failed"
  /\ retryCfg.maxRetries = 2
  /\ retryAttempts = 3
  /\ Len(retryDelays) = 2
  /\ StatusOf(retryErr) = 503

\* the polls of an id that have an active subscription
ActivePollsOf(id) ==
  {p \in 1..Len(polls) :
     polls[p].id = id /\ \E s \in 1..Len(pollSubs) :
                            pollSubs[s].poll = p /\ SubActive(pollSubs[s])}

\* C9: at any time at most one poll per id is ticking or awaiting a response.
C9_OneActivePollPerId ==
  \A id \in PollIds : Cardinality(ActivePollsOf(id)) <= 1

\* C10: a poll subscription that stopPoll(id) has stopped emits no further
\* value and holds no timer.
C10_StopPollHaltsEmission ==
  [][\A s \in 1..Len(pollSubs) :
       pollSubs[s].stopped =>
         /\ pollSubs'[s].emitted = pollSubs[s].emitted
         /\ pollSubs'[s].st # "ticking"]_vars

\* sockets opened by the reconnect timer
Reopened == {i \in 1..Len(sockets) : sockets[i].byReconnect}

\* one connect() with reconnect enabled, no disconnect(); the connection was
\* established and closed uncleanly; no re-opened socket ever opened, each
\* has failed, and no reconnect timer is pending
ReconnectsExhausted ==
  /\ Len(sockets) >= 1
  /\ Cardinality({i \in 1..Len(sockets) : ~sockets[i].byReconnect}) = 1
  /\ wsConfig # NoConfig /\ wsConfig.reconnect
  /\ sockets[1].opened /\ sockets[1].status = "closed" /\ sockets[1].unclean
  /\ \A i \in Reopened : ~sockets[i].opened /\ sockets[i].status = "closed"
  /\ wsTimers = 0

\* C4: with reconnectAttempts = N, an unclean close followed by failing
\* reconnects re-opens exactly N sockets and ends in the state 'error'.
C4_ExactlyNReconnects ==
  ReconnectsExhausted =>
    /\ Cardinality(Reopened) = wsConfig.reconnectAttempts
    /\ wsState = "error"

DocumentedEdges ==
  {<<"disconnected", "connecting">>, <<"connecting", "connected">>,
   <<"connected", "disconnected">>, <<"connected", "reconnecting">>,
   <<"reconnecting", "connecting">>, <<"connected", "error">>,
   <<"error", "reconnecting">>, <<"error", "disconnected">>}

\* C5: the connection state changes only along the documented edges; a
\* reconnect reaches 'connected' through 'connecting'.
C5_DocumentedEdgesOnly ==
  [][wsState' # wsState => <<wsState, wsState'>> \in DocumentedEdges]_vars

\* the clause of C5 on reconnects alone: 'connected' is entered only from
\* 'connecting'
ConnectedOnlyFromConnecting ==
  [][(wsState' = "connected" /\ wsState # "connected") => wsState = "connecting"]_vars

\* the closeSSE half of C10: a connection closeSSE(id) has closed stays closed
\* and its stream emits no further event
CloseSseHaltsEvents ==
  [][\A c \in 1..Len(sseConns) :
       sseConns[c].closedBySse =>
         /\ sseConns'[c].events = sseConns[c].events
         /\ sseConns'[c].ready = "closed"]_vars

\* ---- claims on dispose, sse ids and the TTL store

\* what dispose() promises of the state it leaves: no poll timer runs, every
\* EventSource is closed, the response cache is empty
Disposed ==
  /\ \A s \in 1..Len(pollSubs) : pollSubs[s].st # "ticking"
  /\ \A c \in 1..Len(sseConns) : sseConns[c].ready = "closed"
  /\ \A k \in ApiCacheKeys : apiCache[k] = NoApiEntry

\* C11: when dispose() returns every poll has stopped, every SSE connection
\* is closed and the response cache is empty, whatever calls preceded it.
C11_DisposeReleasesEverything ==
  [][Dispose => Disposed']_vars

\* the SSE part of C11 alone
DisposeClosesEverySse ==
  [][Dispose => \A c \in 1..Len(sseConns) : sseConns'[c].ready = "closed"]_vars

\* the connections of an id that are not closed
OpenSseOf(id) == {c \in 1..Len(sseConns) : sseConns[c].id = id /\ sseConns[c].ready # "closed"}

\* C12: at any time at most one EventSource per id is open.
C12_OneEventSourcePerId ==
  \A id \in SseIds : Cardinality(OpenSseOf(id)) <= 1

\* the service fields after the step
CSNext == [cache |-> cache', observables |-> observables', stats |-> stats',
           order |-> cacheOrder']

\* get(key) and has(key) at time t on service state cs, for an entry holding
\* v that expires at time e: before e both see v; after e get() returns null
\* and evicts, and has() is then false
TtlHonoured(cs, key, v, e, t) ==
  LET g == CacheGet(cs, key, t)
  IN  /\ t < e => (g[2] = v /\ CacheHas(cs, key, t)[2])
      /\ t > e => (g[2] = "null" /\ g[1].cache[key] = NoEntry
                     /\ ~CacheHas(g[1], key, t)[2])

\* C13: after set(key, v, ttl), get(key) returns v and has(key) is true
\* before ttl has elapsed; afterwards get(key) returns absent and evicts the
\* entry and a following has(key) is false. Stated for the state each set()
\* leaves, at every later time, and for every entry of every reachable state.
C13_TtlBeforeAndAfter ==
  /\ [][\A k \in Keys, v \in Values, ttl \in TTLs :
          Set(k, v, ttl) =>
            \A t \in now..(now + ttl + 1) : TtlHonoured(CSNext, k, v, now + ttl, t)]_vars
  /\ [](\A k \in Keys :
          cache[k] # NoEntry =>
            /\ cache[k].expiry - cache[k].createdAt \in TTLs
            /\ TtlHonoured(CS, k, cache[k].data, cache[k].expiry, now))

\* one entry still live after time has passed, another one past its expiry
C13_Witness ==
  \E k, j \in Keys :
    /\ cache[k] # NoEntry /\ cache[k].createdAt < now /\ now < cache[k].expiry
    /\ cache[j] # NoEntry /\ now > cache[j].expiry

\* C14: after every public call stats.size is the number of entries held.
C14_SizeIsEntryCount ==
  stats.size = mapSize(cache)

\* an expired entry was evicted by an access and one entry is left
C14_Witness ==
  /\ stats.size = 1
  /\ stats.misses > 0
  /\ \E k \in Keys : cache[k] = NoEntry /\ now > 0

\* a response stored under key was received no longer than its TTL before t
FetchedWithinTtl(key, t) ==
  \E j \in 1..Len(apiReqs) :
    /\ apiReqs[j].cacheOn /\ CacheKeyOf(apiReqs[j]) = key
    /\ apiReqs[j].at >= 0
    /\ t <= apiReqs[j].at + apiReqs[j].ttl

\* the request get() has just returned
NewReq == apiReqs'[Len(apiReqs')]

\* C15: a cache-enabled get() is served from an unexpired entry without an
\* HTTP request; otherwise it requests and stores the response on success
\* only, under key ?? url with the TTL; a get within the TTL of a stored
\* response is served from the cache, one after the TTL requests again.
C15_CachedGet ==
  [][/\ \A e \in Endpoints, p \in ParamSets, ck \in ExplicitKeys \cup {NoKey},
           ttl \in ApiTTLs :
          ApiGet(e, p, TRUE, ck, ttl) =>
            LET key == IF ck # NoKey THEN ck ELSE buildUrl(e)
            IN  /\ ApiCacheFresh(apiCache, key, now)
                      => (NewReq.st = "hit" /\ NewReq.data = apiCache[key].data)
                /\ ~ApiCacheFresh(apiCache, key, now) => NewReq.st = "cold"
                /\ ~FetchedWithinTtl(key, now) => NewReq.st = "cold"
     /\ \A i \in 1..Len(apiReqs) :
          /\ (ApiSubscribe(i) /\ apiReqs[i].st = "hit") => httpCalls' = httpCalls
          /\ (HttpRespond(i) /\ apiReqs[i].cacheOn) =>
                apiCache'[CacheKeyOf(apiReqs[i])] =
                  [data |-> Resp(apiReqs[i].ep, apiReqs[i].params),
                   expiry |-> now + apiReqs[i].ttl]
          /\ HttpFail(i) => apiCache' = apiCache]_vars

\* a request subscription at rest: what it emitted and what it still holds
RequestSettled(q) ==
  /\ q.st = "pending" => (q.timer /\ q.msgSub /\ q.emitted = 0)
  /\ q.st = "completed" => (q.emitted = 1 /\ ~q.timer /\ ~q.msgSub)
  /\ q.st = "failed" => (q.emitted = 0 /\ ~q.timer /\ ~q.msgSub
                           /\ q.endAt >= q.at + q.timeout)
  /\ q.st = "unsubscribed" => (q.emitted = 0 /\ ~q.timer /\ ~q.msgSub)

\* C16: a request() stream ends in exactly one outcome, the response (one
\* value, then completion, timer cleared) or the timeout (an error, not before
\* the timeout, also when nothing was sent); after an outcome or after
\* unsubscribing neither its timer nor its message subscription is left, and
\* until then both are armed.
C16_RequestOneOutcome ==
  /\ [](\A q \in 1..Len(wsReqs) : RequestSettled(wsReqs[q]))
  /\ [][\A q \in 1..Len(wsReqs) :
          wsReqs[q].st # "pending" => wsReqs'[q] = wsReqs[q]]_vars

\* one request answered, another one, never sent, failed by its timer
C16_Witness ==
  \E q, r \in 1..Len(wsReqs) :
    /\ wsReqs[q].st = "completed" /\ wsReqs[q].sent
    /\ wsReqs[r].st = "failed" /\ ~wsReqs[r].sent

\* the items of pages 1..page, in page order
RECURSIVE PagesUpTo(_)
PagesUpTo(page) == IF page < DefaultInitialPage THEN <<>>
                   ELSE PagesUpTo(page - 1) \o PageItems(page)

\* C17: once a page has loaded data$ holds the items of the initial page up
\* to the current page, concatenated in page order; while page n is loading
\* it holds the pages before n, and nothing after reset() until the initial
\* page has loaded again.
C17_PagesConcatenated ==
  pstream.st = "live" =>
    pstream.data = IF pstream.loading THEN PagesUpTo(pstream.page - 1)
                   ELSE PagesUpTo(pstream.page)

\* a subscription that has to subscribe the request pipeline: every one
\* without shareReplay, and with it the first one and the first after an error
SubscribesSource == ~rstream.share \/ rstream.conn.st = "none"
\* the stream is live: somebody is subscribed to it and has neither been
\* completed nor errored
StreamLive == Listening(rstream) # {}
\* every value a subscriber received
Emitted == UNION {{rstream.subs[s].got[i] : i \in DOMAIN rstream.subs[s].got} :
                  s \in DOMAIN rstream.subs}

SubscribeIssuesOneGet ==
  [][RsSubscribe /\ SubscribesSource => rstream'.gets = rstream.gets + 1]_vars
RefreshIssuesOneGet ==
  [][RsRefresh /\ StreamLive => rstream'.gets = rstream.gets + 1]_vars
OnlyLatestEmitted == [](Emitted \cap rstream.cancelled = {})

\* C18: a subscription that subscribes the pipeline issues exactly one GET,
\* every refresh() while somebody is subscribed issues exactly one further
\* GET, and the result of a request that a later refresh() superseded is
\* never emitted.
C18_RefreshReissues ==
  SubscribeIssuesOneGet /\ RefreshIssuesOneGet /\ OnlyLatestEmitted

\* the requests of the batch that failed, and the one that failed first
Failed == {i \in 1..bat.n : bat.reqs[i].st = "errored"}
FirstFailed == bat.order[CHOOSE k \in DOMAIN bat.order :
                           /\ bat.order[k] \in Failed
                           /\ \A j \in 1..(k - 1) : bat.order[j] \notin Failed]

\* C19: in parallel mode the batch emits at most one array; it emits it when
\* every request has completed and none failed, with the result of request i
\* at position i; once a request has failed the batch has errored exactly
\* once, with the error of the request that failed first, and has emitted
\* nothing, however the other requests end.
C19_ParallelBatch ==
  bat.st # "none" /\ ~bat.sequential =>
    /\ Len(bat.out) <= 1
    /\ bat.errors <= 1
    /\ Len(bat.out) = 1 <=> (\A i \in 1..bat.n : bat.reqs[i].st = "completed")
    /\ Len(bat.out) = 1 => bat.out[1] = [i \in 1..bat.n |-> bat.reqs[i].last]
    /\ bat.errors = 1 <=> Failed # {}
    /\ Failed # {} => bat.out = <<>> /\ bat.firstErr = FirstFailed

\* three requests, two of them failed and the third completed after them
C19_Witness ==
  /\ bat.st # "none" /\ ~bat.sequential /\ bat.n = 3
  /\ Cardinality(Failed) = 2
  /\ Len(bat.order) = 3 /\ bat.order[3] \notin Failed
  /\ bat.errors = 1

Finished(i) == bat.reqs[i].st \in {"completed", "errored"}

\* C20: in sequential mode request i+1 is started only after request i has
\* finished, no factory is called twice, every emitted array holds one result
\* of each request in input order, and once the batch has errored no request
\* is left running.
C20_SequentialBatch ==
  bat.st # "none" /\ bat.sequential =>
    /\ \A i \in 1..(bat.n - 1) : bat.reqs[i + 1].starts > 0 => Finished(i)
    /\ \A i \in 1..bat.n : bat.reqs[i].starts <= 1
    /\ \A k \in DOMAIN bat.out :
         /\ Len(bat.out[k]) = bat.n
         /\ \A i \in 1..bat.n : \E e \in 1..MaxReqEmits : bat.out[k][i] = Val(i, e)
    /\ bat.errors > 0 => \A j \in 1..bat.n : bat.reqs[j].st # "running"

\* C21: once optimisticUpdate() has been called applyOptimistic has run
\* exactly once, and no request is issued before it; a request that failed
\* had rollback run before its error was raised; when a request has succeeded
\* its rollback never ran and the caller's state is the optimistic one.
C21_OptimisticUpdate ==
  /\ opt.st = "none" => opt.applyCalls = 0 /\ opt.subs = <<>>
  /\ opt.st # "none" => opt.applyCalls = 1
  /\ \A s \in DOMAIN opt.subs :
       /\ opt.subs[s].st = "errored" => opt.subs[s].log = <<"rollback", "error">>
       /\ opt.subs[s].st = "succeeded" =>
            /\ \A k \in DOMAIN opt.subs[s].log : opt.subs[s].log[k] # "rollback"
            /\ opt.store = "optimistic"

\* the entries of c that are expired at time t
ExpiredIn(c, t) == {k \in Keys : c[k] # NoEntry /\ t > c[k].expiry}

\* C22: the state clearExpired() leaves has lost exactly the entries that
\* were expired when it was called, holds every other entry as it was, and
\* the call returned the number of entries it removed.
C22_ClearExpiredExact ==
  returned.op = "clearExpired" =>
    /\ \A k \in Keys :
         returned.after[k] = IF k \in ExpiredIn(returned.before, returned.at) THEN NoEntry
                             ELSE returned.before[k]
    /\ returned.ret = Cardinality(ExpiredIn(returned.before, returned.at))
    /\ cache = returned.after

\* clearExpired() removed one entry and left a live one
C22_Witness ==
  /\ returned.op = "clearExpired"
  /\ returned.ret = 1
  /\ \E k \in Keys : returned.after[k] # NoEntry

\* the keys held in c that the pattern matches
MatchingIn(c, pattern) == {k \in Keys : c[k] # NoEntry /\ RegexTest(pattern, k)}

\* C23: the state invalidatePattern(pattern) leaves has lost exactly the
\* entries whose key matches the pattern, holds every other entry as it was,
\* and the call returned the number of keys it removed.
C23_InvalidatePatternExact ==
  returned.op = "invalidatePattern" =>
    /\ \A k \in Keys :
         returned.after[k] = IF k \in MatchingIn(returned.before, returned.pattern)
                               THEN NoEntry
                             ELSE returned.before[k]
    /\ returned.ret = Cardinality(MatchingIn(returned.before, returned.pattern))
    /\ cache = returned.after

\* the values of seq that differ, per comparator f, from the value kept
\* before them, the first value always being kept
RECURSIVE Changes(_, _, _)
Changes(seq, f, kept) ==
  IF seq = <<>> THEN kept
  ELSE IF kept = <<>> \/ ~compareFn(f, kept[Len(kept)], Head(seq))
    THEN Changes(Tail(seq), f, Append(kept, Head(seq)))
    ELSE Changes(Tail(seq), f, kept)

\* C24: with emitOnlyOnChange the stream has emitted, of the polled values,
\* the first and every one that differs per compareFn from the value emitted
\* before it; in particular {v:1}, {v:2}, {v:2} gives {v:1}, {v:2}.
C24_EmitOnlyOnChange ==
  pchg.st # "none" /\ pchg.emitOnlyOnChange =>
    /\ pchg.out = Changes(pchg.got, pchg.compareFn, <<>>)
    /\ \A i \in 1..(Len(pchg.out) - 1) :
         ~compareFn(pchg.compareFn, pchg.out[i], pchg.out[i + 1])
    /\ (\E w \in 1..2 : pchg.got = <<[v |-> 1, w |-> w], [v |-> 2, w |-> w], [v |-> 2, w |-> w]>>)
         => Len(pchg.out) = 2 /\ pchg.out = SubSeq(pchg.got, 1, 2)

\* the poll received {v:1}, {v:2}, {v:2} under the default comparison
C24_Witness ==
  /\ pchg.emitOnlyOnChange /\ pchg.compareFn = "default"
  /\ pchg.got = <<[v |-> 1, w |-> 1], [v |-> 2, w |-> 1], [v |-> 2, w |-> 1]>>
  /\ Len(pchg.out) = 2

\* the socket of the current connection is open and the service connected
CurrentOpen ==
  /\ socketCur # 0
  /\ sockets[socketCur].status = "open"
  /\ wsState = "connected"

\* a step that is neither connect() nor disconnect() and not an event of the
\* current socket
StaleEvent ==
  /\ socketCur' = socketCur
  /\ wsConfig' = wsConfig
  /\ sockets'[socketCur] = sockets[socketCur]

\* C25: while the socket of the latest connect() is open, an event of any
\* other socket leaves the state 'connected' and the heartbeat running.
C25_StaleSocketEventsIgnored ==
  [][CurrentOpen /\ StaleEvent =>
       /\ wsState' = "connected"
       /\ heartbeatTimer => heartbeatTimer']_vars

\* a page request of the stream has failed and reset() has not been called
\* since: loading$ is true with no request in flight
PageFailed == pstream.st = "live" /\ pstream.error /\ pstream.loading /\ pstream.inflight = 0

\* C26: a failed page request sets error$ and leaves data$ and the page
\* counter as they were, with loading$ true; from then on loadMore() issues
\* no request and changes nothing, until reset() is called.
C26_FailedPageBlocksLoadMore ==
  /\ [][PageFail => /\ PageFailed'
                     /\ pstream'.data = pstream.data
                     /\ pstream'.page = pstream.page]_vars
  /\ [](PageFailed => ~ENABLED LoadMore)
  /\ [][PageFailed /\ ~ResetStream /\ ~DestroyStream => PageFailed' /\ pstream' = pstream]_vars

\* the second page failed after the first had loaded
C26_Witness ==
  /\ PageFailed
  /\ pstream.page = 2
  /\ pstream.data = PageItems(1)

\* C27: a cache-enabled get() without an explicit cache key only ever yields
\* the response of its own endpoint and query parameters, served from the
\* cache or fetched.
C27_CacheIsolation ==
  \A i \in 1..Len(apiReqs) :
    ( /\ apiReqs[i].cacheOn
      /\ apiReqs[i].ckey = NoKey
      /\ apiReqs[i].st \in {"hit", "done"} )
    => apiReqs[i].data = Resp(apiReqs[i].ep, apiReqs[i].params)

\* the in-flight wrap requests whose pending entry is no longer registered
Orphaned == {s \in 1..Len(streams) :
               streams[s].st = "inflight" /\ observables[streams[s].key] # s}

\* C28: delete(key) and clear() remove the pending entry of an in-flight wrap
\* request and leave the request running; the result of a request whose
\* pending entry is gone is still written to the cache under its key.
C28_DeleteDoesNotCancelWrap ==
  /\ [][\A k \in Keys : Delete(k) =>
          /\ observables'[k] = 0
          /\ \A s \in InFlightOf(k) : streams'[s] = streams[s] /\ s \in Orphaned']_vars
  /\ [][Clear => \A s \in 1..Len(streams) :
                   streams[s].st = "inflight" =>
                     streams'[s] = streams[s] /\ s \in Orphaned']_vars
  /\ [][\A s \in Orphaned, v \in Values :
          SourceSucceed(s, v) =>
            /\ cache'[streams[s].key] # NoEntry
            /\ cache'[streams[s].key].data = v]_vars

\* a wrap request is in flight with a subscriber, its pending entry and the
\* cache entry of its key are gone
C28_Witness ==
  \E s \in Orphaned :
    /\ streams[s].subs > 0
    /\ observables[streams[s].key] = 0
    /\ cache[streams[s].key] = NoEntry
    /\ factoryCalls[streams[s].key] = 1

\* C29: the failure of a socket, reported as an unclean close or as an error,
\* raises the reconnect-attempt counter by at most one and schedules at most
\* one reconnect timer, and no two reconnect timers are ever pending.
C29_OneReconnectPerFailure ==
  /\ [][(\E i \in 1..Len(sockets) : SocketClose(i, FALSE) \/ SocketError(i)) =>
          /\ wsAttempts' <= wsAttempts + 1
          /\ wsTimers' <= wsTimers + 1]_vars
  /\ [](wsTimers <= 1)

\* the array both modes are to emit for n requests
ExpectedBatch(n) == [i \in 1..n |-> Val(i, 1)]

\* C30: a subscribed batch, in either mode, eventually has emitted exactly
\* one array, the results in input order, and completed; it never emits
\* anything else.
C30_BatchModesAgree ==
  /\ [](bat.st # "none" => bat.out \in {<<>>, <<ExpectedBatch(bat.n)>>})
  /\ (bat.st # "none") ~> (bat.st = "done" /\ bat.out = <<ExpectedBatch(bat.n)>>)

====
